---- MODULE Spec2Model ----
(***************************************************************************)
(* PocketCoffea: the weights accumulator (lib/WeightsManager.py) and the   *)
(* configuration resolver (utils/configurator.py).                         *)
(*                                                                         *)
(* Arrays of per-event values are functions 1..ChunkSize -> Int; all the   *)
(* values are non-zero integers, so that the relative variation that the   *)
(* Weights container stores (up / nominal) is kept as an exact fraction.   *)
(* The Python value None is the string "None"; category names are the      *)
(* non-empty keys of the categories dictionary.                            *)
(***************************************************************************)
EXTENDS Integers, Sequences, FiniteSets, TLC

\* ------------------------------------------------------------------ bounds
\* events in a chunk
ChunkSize == 2
\* entries of one weightsConf (inclusive and bycategory lists together)
MaxWeights == 2
\* add_weight calls on one accumulator
MaxAdd == 1
\* entries of the weights and variations configurations of one Configurator
MaxEntries == 2
MaxClasses == 3
\* chunks whose accumulators are built at the same time
NChunks == 2

\* ------------------------------------------------------------- values
None == "None"

\* the keys of weightsConf["bycategory"], in the dictionary's order
CategoryOrder == <<"SR", "CR">>
Categories == {CategoryOrder[i] : i \in DOMAIN CategoryOrder}

\* a configuration entry: a string, or a WeightCustom object (a dataclass,
\* compared field by field)
Str(n) == [kind |-> "str", name |-> n, function |-> "-"]
WeightCustom(n, f) == [kind |-> "custom", name |-> n, function |-> f]

available_weights ==
    {"genWeight", "lumi", "XS", "pileup",
     "sf_ele_reco", "sf_ele_id", "sf_ele_trigger",
     "sf_mu_id", "sf_mu_iso",
     "sf_btag", "sf_btag_calib",
     "sf_jet_puId"}

\* the entries the checked configurations are made of: built-in names without
\* and with variations, a name defined in a processor, two custom weights
\* that carry the same name, and a custom weight that carries the name of a
\* built-in one
Entries ==
    {Str("genWeight"), Str("pileup"), Str("sf_in_processor"),
     WeightCustom("my_w", "fA"), WeightCustom("my_w", "fB"),
     WeightCustom("pileup", "fC")}

\* ------------------------------------------------------ arrays of a chunk
Events == 1..ChunkSize

Ones == [e \in Events |-> 1]
Mul(a, b) == [e \in Events |-> a[e] * b[e]]
\* a * (num / den), with den a factor of a
MulRatio(a, num, den) == [e \in Events |-> (a[e] * num[e]) \div den[e]]

\* what the correction functions and the events hold for this chunk: the
\* nominal, up and down arrays of source number i
Nominal(i) == [e \in Events |-> 2 + ((i + e) % 4)]
Up(i) == [e \in Events |-> Nominal(i)[e] + 2 + (i % 3)]
Down(i) == [e \in Events |-> Nominal(i)[e] - 1]

\* the tuples a weight is made of: (name, nominal) or (name, nominal, up, down)
Tuple2(n, nom) == [name |-> n, len |-> 2, nominal |-> nom, up |-> <<>>, down |-> <<>>]
Tuple4(n, nom, u, d) == [name |-> n, len |-> 4, nominal |-> nom, up |-> u, down |-> d]
Varied(n, i) == Tuple4(n, Nominal(i), Up(i), Down(i))

\* btag_variations[year] of parameters/btag.py
btag_variations == <<"hf", "lf">>

\* -------------------------------------------- coffea.analysis_tools.Weights
\* Weights(size): the running product and the relative variations by modifier
WeightsNew == [weight |-> Ones, modifiers |-> <<>>]

WithModifier(mods, m, num, den) ==
    [k \in DOMAIN mods \cup {m} |->
        IF k = m THEN [num |-> num, den |-> den] ELSE mods[k]]

\* Weights.add(name, weight, weightUp, weightDown)
WeightsAdd(obj, t) ==
    [weight |-> Mul(obj.weight, t.nominal),
     modifiers |->
        IF t.len > 2
        THEN WithModifier(WithModifier(obj.modifiers, t.name \o "Up", t.up, t.nominal),
                          t.name \o "Down", t.down, t.nominal)
        ELSE obj.modifiers]

Array(a) == [kind |-> "array", value |-> a]
Raise(e) == [kind |-> e, value |-> <<>>]

\* Weights.weight(modifier)
WeightsWeight(obj, modifier) ==
    IF modifier = None THEN Array(obj.weight)
    ELSE IF modifier \in DOMAIN obj.modifiers
    THEN Array(MulRatio(obj.weight, obj.modifiers[modifier].num,
                        obj.modifiers[modifier].den))
    ELSE Raise("KeyError")

\* the product of two results, an error of the left operand first
Times(x, y) ==
    IF x.kind # "array" THEN x
    ELSE IF y.kind # "array" THEN y
    ELSE Array(Mul(x.value, y.value))

\* ---------------------------------------------------------- WeightsManager
\* WeightsManager._compute_weight: the list of tuples of a predefined weight
_compute_weight(weight_name) ==
    CASE weight_name = "genWeight" -> <<Tuple2("genWeight", Nominal(1))>>
      [] weight_name = "lumi" -> <<Tuple2("lumi", Nominal(2))>>
      [] weight_name = "XS" -> <<Tuple2("XS", Nominal(3))>>
      [] weight_name = "pileup" -> <<Varied("pileup", 4)>>
      [] weight_name = "sf_ele_reco" -> <<Varied("sf_ele_reco", 5)>>
      [] weight_name = "sf_ele_id" -> <<Varied("sf_ele_id", 6)>>
      [] weight_name = "sf_ele_trigger" -> <<Varied("sf_ele_trigger", 7)>>
      [] weight_name = "sf_mu_id" -> <<Varied("sf_mu_id", 8)>>
      [] weight_name = "sf_mu_iso" -> <<Varied("sf_mu_iso", 9)>>
      [] weight_name = "sf_btag" ->
            <<Tuple2("sf_btag_central", Nominal(10))>> \o
            [i \in DOMAIN btag_variations |->
                Tuple4("sf_btag_" \o btag_variations[i], Ones, Up(10 + i), Down(10 + i))]
      [] weight_name = "sf_btag_calib" -> <<Tuple2("sf_btag_calib", Nominal(13))>>
      [] weight_name = "sf_jet_puId" -> <<Varied("sf_jet_puId", 14)>>
      [] OTHER -> None

\* w.function(events, metadata) of a WeightCustom: the user's function
CustomFunction(f) ==
    CASE f = "fA" -> <<Varied("my_w", 15)>>
      [] f = "fB" -> <<Varied("my_w", 16)>>
      [] f = "fC" -> <<Tuple2("pileup", Nominal(18))>>

\* everything that can be invoked to compute a weight
Callables == available_weights \cup {"fA", "fB", "fC"}

CachePut(cache, key, value) ==
    [k \in DOMAIN cache \cup {key} |-> IF k = key THEN value ELSE cache[k]]
Count(calls, key) == [calls EXCEPT ![key] = @ + 1]

\* for we in _weightsCache[..]: weight_obj.add(*we)
RECURSIVE AddTuples(_, _)
AddTuples(weight_obj, ts) ==
    IF ts = <<>> THEN weight_obj
    ELSE AddTuples(WeightsAdd(weight_obj, Head(ts)), Tail(ts))

\* ... if len(we) > 2: installed_modifiers += [we[0]+"Up", we[0]+"Down"]
RECURSIVE InstalledModifiers(_)
InstalledModifiers(ts) ==
    IF ts = <<>> THEN <<>>
    ELSE (IF Head(ts).len > 2
          THEN <<Head(ts).name \o "Up", Head(ts).name \o "Down">>
          ELSE <<>>) \o InstalledModifiers(Tail(ts))

\* the cache key the constructor uses for entry w
CacheKey(w) == w.name

\* the callable that computes entry w
Callable(w) == IF w.kind = "str" THEN w.name ELSE w.function

Compute(w) == IF w.kind = "str" THEN _compute_weight(w.name) ELSE CustomFunction(w.function)

\* the second half of __add_weight: add the cached tuples to weight_obj and
\* return the modifiers they install
AddCached(w, weight_obj, cache, calls) ==
    [returned |-> "list",
     modifiers |-> InstalledModifiers(cache[CacheKey(w)]),
     obj |-> AddTuples(weight_obj, cache[CacheKey(w)]),
     cache |-> cache, calls |-> calls]

\* WeightsManager.__init__.__add_weight(w, weight_obj), with the cache and the
\* call counts it reads and writes.  returned is "None" for the bare return.
__add_weight(w, weight_obj, cache, calls) ==
    IF w.kind = "str" /\ w.name \notin available_weights
    THEN [returned |-> "None", modifiers |-> <<>>, obj |-> weight_obj,
          cache |-> cache, calls |-> calls]
    ELSE IF CacheKey(w) \in DOMAIN cache
    THEN AddCached(w, weight_obj, cache, calls)
    ELSE AddCached(w, weight_obj, CachePut(cache, CacheKey(w), Compute(w)),
                   Count(calls, Callable(w)))

ToSet(seq) == {seq[i] : i \in DOMAIN seq}

Put(map, key, value) ==
    [k \in DOMAIN map \cup {key} |-> IF k = key THEN value ELSE map[k]]

\* for w in ws: modifiers = __add_weight(w, obj); <list> += modifiers
\* (list += None raises TypeError).  r is the outcome of __add_weight for the
\* entry before ws.
RECURSIVE AddWeightsLoop(_, _, _, _)
RECURSIVE AfterAddWeight(_, _)
AfterAddWeight(ws, r) ==
    IF r.returned = "None"
    THEN [failed |-> TRUE, modifiers |-> <<>>, obj |-> r.obj,
          cache |-> r.cache, calls |-> r.calls]
    ELSE [AddWeightsLoop(ws, r.obj, r.cache, r.calls)
            EXCEPT !.modifiers = r.modifiers \o @]

AddWeightsLoop(ws, weight_obj, cache, calls) ==
    IF ws = <<>>
    THEN [failed |-> FALSE, modifiers |-> <<>>, obj |-> weight_obj,
          cache |-> cache, calls |-> calls]
    ELSE AfterAddWeight(Tail(ws), __add_weight(Head(ws), weight_obj, cache, calls))

\* for cat, ws in weightsConf["bycategory"].items(): from the i-th category
\* on.  r is the outcome of the loop over the weights of category i - 1.
RECURSIVE ByCategoryLoop(_, _, _, _, _, _)
RECURSIVE AfterCategory(_, _, _, _, _)
AfterCategory(i, conf, byCat, modsByCat, r) ==
    IF r.failed
    THEN [failed |-> TRUE, byCat |-> byCat, modsByCat |-> modsByCat,
          cache |-> r.cache, calls |-> r.calls]
    ELSE ByCategoryLoop(i, conf, Put(byCat, CategoryOrder[i - 1], r.obj),
                        Put(modsByCat, CategoryOrder[i - 1], r.modifiers),
                        r.cache, r.calls)

ByCategoryLoop(i, conf, byCat, modsByCat, cache, calls) ==
    IF i > Len(CategoryOrder)
    THEN [failed |-> FALSE, byCat |-> byCat, modsByCat |-> modsByCat,
          cache |-> cache, calls |-> calls]
    ELSE IF Len(conf.bycategory[CategoryOrder[i]]) = 0
    THEN ByCategoryLoop(i + 1, conf, byCat, modsByCat, cache, calls)
    ELSE AfterCategory(i + 1, conf, byCat, modsByCat,
                       AddWeightsLoop(conf.bycategory[CategoryOrder[i]],
                                      WeightsNew, cache, calls))

NotConstructed(error, calls) ==
    [status |-> error, weightsIncl |-> WeightsNew, weightsByCat |-> <<>>,
     modifiers_inclusive |-> {}, modifiers_bycat |-> <<>>, calls |-> calls]

Constructed_without_empty_sets(incl, cats) ==
    IF cats.failed THEN NotConstructed("TypeError", cats.calls)
    ELSE [status |-> "ok",
          weightsIncl |-> incl.obj,
          weightsByCat |-> cats.byCat,
          modifiers_inclusive |-> ToSet(incl.modifiers),
          modifiers_bycat |->
              [k \in {c \in DOMAIN cats.modsByCat : cats.modsByCat[c] # <<>>}
                  |-> ToSet(cats.modsByCat[k])],
          calls |-> cats.calls]

\* the end of __init__: the modifier lists made sets, the cache cleared
Constructed(incl, cats) ==
    IF cats.failed THEN NotConstructed("TypeError", cats.calls)
    ELSE [status |-> "ok",
          weightsIncl |-> incl.obj,
          weightsByCat |-> cats.byCat,
          modifiers_inclusive |-> ToSet(incl.modifiers),
          modifiers_bycat |->
              [k \in DOMAIN cats.modsByCat |-> ToSet(cats.modsByCat[k])],
          calls |-> cats.calls]

\* __init__ after the loop over the inclusive weights, whose outcome is incl
AfterInclusive(conf, incl) ==
    IF incl.failed THEN NotConstructed("TypeError", incl.calls)
    ELSE IF conf.is_split_bycat
    THEN Constructed(incl, ByCategoryLoop(1, conf, <<>>, <<>>, incl.cache, incl.calls))
    ELSE Constructed(incl, [failed |-> FALSE, byCat |-> <<>>, modsByCat |-> <<>>,
                            cache |-> incl.cache, calls |-> incl.calls])

\* WeightsManager.__init__(weightsConf, size, events, metadata): the object it
\* builds, or the error it raises, and the calls it made
WeightsManagerInit(conf, calls) ==
    AfterInclusive(conf, AddWeightsLoop(conf.inclusive, WeightsNew, <<>>, calls))

\* ------------------------------------------------------------ Configurator
\* the samples a dataset definition may hold, in the order load_datasets
\* meets them
SampleNames == <<"ttHTobb", "TTToSemiLeptonic">>

\* WeightsManager.available_variations, which the workflow hands on
available_variations ==
    {"nominal", "pileup", "sf_ele_reco", "sf_ele_id",
     "sf_mu_id", "sf_mu_iso", "sf_jet_puId"}
    \cup {"sf_btag_" \o btag_variations[i] : i \in DOMAIN btag_variations}

\* self.weights_config before load_weights_config (__init__)
EmptyWeightsConfig(samples) ==
    [s \in ToSet(samples) |->
        [inclusive |-> <<>>,
         bycategory |-> [c \in Categories |-> <<>>],
         is_split_bycat |-> FALSE]]

\* self.variations_config before load_variations_config (__init__)
EmptyVariationsConfig(samples) ==
    [s \in ToSet(samples) |->
        [weights |-> [c \in Categories |-> <<>>],
         shape |-> [c \in Categories |-> <<>>]]]

Ok(cfg) == [err |-> "", cfg |-> cfg]
Fail(e, cfg) == [err |-> e, cfg |-> cfg]

NotAvailable_unchecked(w, available) == FALSE

\* if isinstance(w, str): if w not in available: raise
NotAvailable(w, available) == w.kind = "str" /\ w.name \notin available

\* w in <list>
In(w, list) == \E i \in DOMAIN list : list[i] = w

AlreadyInclusive_unchecked(w, wsample) == FALSE

\* if w in wsample["inclusive"]: raise
AlreadyInclusive(w, wsample) == In(w, wsample.inclusive)

\* load_weights_config, common/inclusive: for w in wcfg["common"]["inclusive"]
RECURSIVE WeightsCommonInclusive(_, _, _)
WeightsCommonInclusive(ws, wc, available) ==
    IF ws = <<>> THEN Ok(wc)
    ELSE IF NotAvailable(Head(ws), available)
    THEN Fail("Wrong weight configuration", wc)
    ELSE WeightsCommonInclusive(
            Tail(ws),
            [s \in DOMAIN wc |-> [wc[s] EXCEPT !.inclusive = Append(@, Head(ws))]],
            available)

\* common/bycategory, for wsample in self.weights_config.values(): from the
\* i-th sample on
RECURSIVE WeightsCommonByCatSamples(_, _, _, _, _)
WeightsCommonByCatSamples(i, samples, cat, w, wc) ==
    IF i > Len(samples) THEN Ok(wc)
    ELSE IF AlreadyInclusive(w, wc[samples[i]])
    THEN Fail("already included inclusively",
              [wc EXCEPT ![samples[i]].is_split_bycat = TRUE])
    ELSE WeightsCommonByCatSamples(
            i + 1, samples, cat, w,
            [wc EXCEPT ![samples[i]].is_split_bycat = TRUE,
                       ![samples[i]].bycategory[cat] = Append(@, w)])

\* common/bycategory, for w in weights.  r is the outcome so far.
RECURSIVE WeightsCommonByCatWeights(_, _, _, _, _)
WeightsCommonByCatWeights(ws, samples, cat, r, available) ==
    IF r.err # "" \/ ws = <<>> THEN r
    ELSE IF NotAvailable(Head(ws), available)
    THEN Fail("Wrong weight configuration", r.cfg)
    ELSE WeightsCommonByCatWeights(
            Tail(ws), samples, cat,
            WeightsCommonByCatSamples(1, samples, cat, Head(ws), r.cfg),
            available)

\* common/bycategory, for cat, weights in wcfg["common"]["bycategory"].items():
\* from the i-th category on
RECURSIVE WeightsCommonByCat(_, _, _, _, _)
WeightsCommonByCat(i, samples, bycategory, r, available) ==
    IF r.err # "" \/ i > Len(CategoryOrder) THEN r
    ELSE WeightsCommonByCat(
            i + 1, samples, bycategory,
            WeightsCommonByCatWeights(bycategory[CategoryOrder[i]], samples,
                                      CategoryOrder[i], r, available),
            available)

\* bysample/inclusive: for w in s_wcfg["inclusive"]
RECURSIVE WeightsSampleInclusive(_, _, _, _)
WeightsSampleInclusive(ws, sample, r, available) ==
    IF r.err # "" \/ ws = <<>> THEN r
    ELSE IF NotAvailable(Head(ws), available)
    THEN Fail("Wrong weight configuration", r.cfg)
    ELSE WeightsSampleInclusive(
            Tail(ws), sample,
            Ok([r.cfg EXCEPT ![sample].inclusive = Append(@, Head(ws))]),
            available)

AppendByCategory_flag_unset(wsample, cat, w) ==
    [wsample EXCEPT !.bycategory[cat] = Append(@, w)]

\* bysample/bycategory, lines 316-317: the weight is appended and the sample
\* is marked as split
AppendByCategory(wsample, cat, w) ==
    [wsample EXCEPT !.bycategory[cat] = Append(@, w),
                    !.is_split_bycat = TRUE]

\* bysample/bycategory: for w in weights
RECURSIVE WeightsSampleByCatWeights(_, _, _, _, _)
WeightsSampleByCatWeights(ws, sample, cat, r, available) ==
    IF r.err # "" \/ ws = <<>> THEN r
    ELSE IF NotAvailable(Head(ws), available)
    THEN Fail("Wrong weight configuration", r.cfg)
    ELSE IF AlreadyInclusive(Head(ws), r.cfg[sample])
    THEN Fail("already included inclusively", r.cfg)
    ELSE WeightsSampleByCatWeights(
            Tail(ws), sample, cat,
            Ok([r.cfg EXCEPT ![sample] = AppendByCategory(@, cat, Head(ws))]),
            available)

\* bysample/bycategory: for cat, weights in s_wcfg["bycategory"].items()
RECURSIVE WeightsSampleByCat(_, _, _, _, _)
WeightsSampleByCat(i, sample, bycategory, r, available) ==
    IF r.err # "" \/ i > Len(CategoryOrder) THEN r
    ELSE WeightsSampleByCat(
            i + 1, sample, bycategory,
            WeightsSampleByCatWeights(bycategory[CategoryOrder[i]], sample,
                                      CategoryOrder[i], r, available),
            available)

\* for sample, s_wcfg in wcfg["bysample"].items(): from the i-th name on
RECURSIVE WeightsBySample(_, _, _, _, _)
WeightsBySample(i, samples, bysample, r, available) ==
    IF r.err # "" \/ i > Len(SampleNames) THEN r
    ELSE IF SampleNames[i] \notin DOMAIN bysample
    THEN WeightsBySample(i + 1, samples, bysample, r, available)
    ELSE IF ~In(SampleNames[i], samples)
    THEN Fail("Wrong weight configuration", r.cfg)
    ELSE WeightsBySample(
            i + 1, samples, bysample,
            WeightsSampleByCat(
                1, SampleNames[i], bysample[SampleNames[i]].bycategory,
                WeightsSampleInclusive(bysample[SampleNames[i]].inclusive,
                                       SampleNames[i], r, available),
                available),
            available)

load_weights_config_bysample_first(wcfg, samples, weights_config, available) ==
    IF ~wcfg.has_common THEN Fail("Wrong weight configuration", weights_config)
    ELSE WeightsCommonByCat(
            1, samples, wcfg.common.bycategory,
            IF WeightsBySample(1, samples, wcfg.bysample, Ok(weights_config),
                               available).err # ""
            THEN WeightsBySample(1, samples, wcfg.bysample, Ok(weights_config),
                                 available)
            ELSE WeightsCommonInclusive(
                    wcfg.common.inclusive,
                    WeightsBySample(1, samples, wcfg.bysample,
                                    Ok(weights_config), available).cfg,
                    available),
            available)

load_weights_config_common_optional(wcfg, samples, weights_config, available) ==
    WeightsBySample(
        1, samples, wcfg.bysample,
        IF ~wcfg.has_common THEN Ok(weights_config)
        ELSE WeightsCommonByCat(
                1, samples, wcfg.common.bycategory,
                WeightsCommonInclusive(wcfg.common.inclusive, weights_config,
                                       available),
                available),
        available)

\* Configurator.load_weights_config(wcfg): the error raised ("" for none) and
\* self.weights_config as the call leaves it
load_weights_config(wcfg, samples, weights_config, available) ==
    IF ~wcfg.has_common THEN Fail("Wrong weight configuration", weights_config)
    ELSE WeightsBySample(
            1, samples, wcfg.bysample,
            WeightsCommonByCat(
                1, samples, wcfg.common.bycategory,
                WeightsCommonInclusive(wcfg.common.inclusive, weights_config,
                                       available),
                available),
            available)

\* if w not in wcat: wcat.append(w)
AppendNew(list, w) == IF In(w, list) THEN list ELSE Append(list, w)

\* load_variations_config, common/inclusive: the variation is appended to every
\* category of every sample
RECURSIVE VariationsCommonInclusive(_, _, _, _)
VariationsCommonInclusive(ws, type, vc, available) ==
    IF ws = <<>> THEN Ok(vc)
    ELSE IF NotAvailable(Head(ws), available)
    THEN Fail("Wrong variation configuration", vc)
    ELSE VariationsCommonInclusive(
            Tail(ws), type,
            [s \in DOMAIN vc |->
                [vc[s] EXCEPT ![type] =
                    [c \in DOMAIN @ |-> Append(@[c], Head(ws))]]],
            available)

\* common/bycategory: for w in variations
RECURSIVE VariationsCommonByCatWeights(_, _, _, _, _)
VariationsCommonByCatWeights(ws, type, cat, r, available) ==
    IF r.err # "" \/ ws = <<>> THEN r
    ELSE IF NotAvailable(Head(ws), available)
    THEN Fail("Wrong variation configuration", r.cfg)
    ELSE VariationsCommonByCatWeights(
            Tail(ws), type, cat,
            Ok([s \in DOMAIN r.cfg |->
                  [r.cfg[s] EXCEPT ![type][cat] = AppendNew(@, Head(ws))]]),
            available)

\* common/bycategory: for cat, variations in wcfg["common"]["bycategory"].items()
RECURSIVE VariationsCommonByCat(_, _, _, _, _)
VariationsCommonByCat(i, type, bycategory, r, available) ==
    IF r.err # "" \/ i > Len(CategoryOrder) THEN r
    ELSE VariationsCommonByCat(
            i + 1, type, bycategory,
            VariationsCommonByCatWeights(bycategory[CategoryOrder[i]], type,
                                         CategoryOrder[i], r, available),
            available)

\* bysample/inclusive: for w in s_wcfg["inclusive"]
RECURSIVE VariationsSampleInclusive(_, _, _, _, _)
VariationsSampleInclusive(ws, type, sample, r, available) ==
    IF r.err # "" \/ ws = <<>> THEN r
    ELSE IF NotAvailable(Head(ws), available)
    THEN Fail("Wrong variation configuration", r.cfg)
    ELSE VariationsSampleInclusive(
            Tail(ws), type, sample,
            Ok([r.cfg EXCEPT ![sample][type] =
                  [c \in DOMAIN @ |-> AppendNew(@[c], Head(ws))]]),
            available)

\* bysample/bycategory: for w in variation
RECURSIVE VariationsSampleByCatWeights(_, _, _, _, _, _)
VariationsSampleByCatWeights(ws, type, sample, cat, r, available) ==
    IF r.err # "" \/ ws = <<>> THEN r
    ELSE IF NotAvailable(Head(ws), available)
    THEN Fail("Wrong variation configuration", r.cfg)
    ELSE VariationsSampleByCatWeights(
            Tail(ws), type, sample, cat,
            Ok([r.cfg EXCEPT ![sample][type][cat] = Append(@, Head(ws))]),
            available)

\* bysample/bycategory: for cat, variation in s_wcfg["bycategory"].items()
RECURSIVE VariationsSampleByCat(_, _, _, _, _, _)
VariationsSampleByCat(i, type, sample, bycategory, r, available) ==
    IF r.err # "" \/ i > Len(CategoryOrder) THEN r
    ELSE VariationsSampleByCat(
            i + 1, type, sample, bycategory,
            VariationsSampleByCatWeights(bycategory[CategoryOrder[i]], type,
                                         sample, CategoryOrder[i], r, available),
            available)

\* for sample, s_wcfg in wcfg["bysample"].items(): from the i-th name on
RECURSIVE VariationsBySample(_, _, _, _, _, _)
VariationsBySample(i, type, samples, bysample, r, available) ==
    IF r.err # "" \/ i > Len(SampleNames) THEN r
    ELSE IF SampleNames[i] \notin DOMAIN bysample
    THEN VariationsBySample(i + 1, type, samples, bysample, r, available)
    ELSE IF ~In(SampleNames[i], samples)
    THEN Fail("Wrong variation configuration", r.cfg)
    ELSE VariationsBySample(
            i + 1, type, samples, bysample,
            VariationsSampleByCat(
                1, type, SampleNames[i], bysample[SampleNames[i]].bycategory,
                VariationsSampleInclusive(bysample[SampleNames[i]].inclusive,
                                          type, SampleNames[i], r, available),
                available),
            available)

load_variations_config_common_only(wcfg, variation_type, samples, variations_config, available) ==
    IF ~wcfg.has_common
    THEN Fail("Wrong variation configuration", variations_config)
    ELSE VariationsCommonByCat(
            1, variation_type, wcfg.common.bycategory,
            VariationsCommonInclusive(wcfg.common.inclusive, variation_type,
                                      variations_config, available),
            available)

\* Configurator.load_variations_config(wcfg, variation_type): the error raised
\* ("" for none) and self.variations_config as the call leaves it
load_variations_config(wcfg, variation_type, samples, variations_config, available) ==
    IF ~wcfg.has_common
    THEN Fail("Wrong variation configuration", variations_config)
    ELSE VariationsBySample(
            1, variation_type, samples, wcfg.bysample,
            VariationsCommonByCat(
                1, variation_type, wcfg.common.bycategory,
                VariationsCommonInclusive(wcfg.common.inclusive, variation_type,
                                          variations_config, available),
                available),
            available)

\* ---------------------------------------------------- load_columns_config
\* the subsample names datasets_cfg["subsamples"] can give to the first sample
SubsampleNames == <<"ttHTobb_1b">>

\* load_subsamples: self.subsamples_list, and self.total_samples_list as a set
subsamples_list(samples, subsamples_dict) ==
    UNION {ToSet(subsamples_dict[s]) : s \in ToSet(samples) \cap DOMAIN subsamples_dict}
total_samples_list(samples, subsamples_dict) ==
    ToSet(samples) \cup subsamples_list(samples, subsamples_dict)

\* load_columns_config, lines 395-400: an empty list per category for every
\* subsample, or for the sample when it has none
ColumnsInit(samples, subsamples_dict) ==
    [k \in UNION {IF s \in DOMAIN subsamples_dict
                  THEN ToSet(subsamples_dict[s]) ELSE {s} : s \in ToSet(samples)}
        |-> [c \in Categories |-> <<>>]]

\* common/inclusive: for w in wcfg["common"]["inclusive"]
RECURSIVE ColumnsCommonInclusive(_, _)
ColumnsCommonInclusive(ws, cols) ==
    IF ws = <<>> THEN cols
    ELSE ColumnsCommonInclusive(
            Tail(ws),
            [k \in DOMAIN cols |->
                [c \in Categories |-> Append(cols[k][c], Head(ws))]])

\* common/bycategory: for w in columns
RECURSIVE ColumnsCommonByCatColumns(_, _, _)
ColumnsCommonByCatColumns(ws, cat, cols) ==
    IF ws = <<>> THEN cols
    ELSE ColumnsCommonByCatColumns(
            Tail(ws), cat,
            [k \in DOMAIN cols |->
                [cols[k] EXCEPT ![cat] = AppendNew(@, Head(ws))]])

\* common/bycategory: for cat, columns in wcfg["common"]["bycategory"].items()
RECURSIVE ColumnsCommonByCat(_, _, _)
ColumnsCommonByCat(i, bycategory, cols) ==
    IF i > Len(CategoryOrder) THEN cols
    ELSE ColumnsCommonByCat(
            i + 1, bycategory,
            ColumnsCommonByCatColumns(bycategory[CategoryOrder[i]],
                                      CategoryOrder[i], cols))

\* bysample, lines 429-443 and 448-454: the keys of self.columns that an entry
\* for sample is written to
ColumnsTargets(sample, samples, subsamples_dict) ==
    IF sample \in subsamples_list(samples, subsamples_dict) THEN {sample}
    ELSE IF sample \in DOMAIN subsamples_dict
    THEN ToSet(subsamples_dict[sample])
    ELSE {sample}

\* bysample/inclusive: for w in s_wcfg["inclusive"]
RECURSIVE ColumnsSampleInclusive(_, _, _)
ColumnsSampleInclusive(ws, targets, cols) ==
    IF ws = <<>> THEN cols
    ELSE ColumnsSampleInclusive(
            Tail(ws), targets,
            [k \in DOMAIN cols |->
                IF k \in targets
                THEN [c \in Categories |-> AppendNew(cols[k][c], Head(ws))]
                ELSE cols[k]])

\* bysample/bycategory: for w in columns
RECURSIVE ColumnsSampleByCatColumns(_, _, _, _)
ColumnsSampleByCatColumns(ws, targets, cat, cols) ==
    IF ws = <<>> THEN cols
    ELSE ColumnsSampleByCatColumns(
            Tail(ws), targets, cat,
            [k \in DOMAIN cols |->
                IF k \in targets
                THEN [cols[k] EXCEPT ![cat] = Append(@, Head(ws))]
                ELSE cols[k]])

\* bysample/bycategory: for cat, columns in s_wcfg["bycategory"].items()
RECURSIVE ColumnsSampleByCat(_, _, _, _)
ColumnsSampleByCat(i, targets, bycategory, cols) ==
    IF i > Len(CategoryOrder) THEN cols
    ELSE ColumnsSampleByCat(
            i + 1, targets, bycategory,
            ColumnsSampleByCatColumns(bycategory[CategoryOrder[i]], targets,
                                      CategoryOrder[i], cols))

\* for sample, s_wcfg in wcfg["bysample"].items(): from the i-th of names on
RECURSIVE ColumnsBySample(_, _, _, _, _, _)
ColumnsBySample(i, names, samples, subsamples_dict, bysample, r) ==
    IF r.err # "" \/ i > Len(names) THEN r
    ELSE IF names[i] \notin DOMAIN bysample
    THEN ColumnsBySample(i + 1, names, samples, subsamples_dict, bysample, r)
    ELSE IF names[i] \notin total_samples_list(samples, subsamples_dict)
    THEN Fail("Wrong columns configuration", r.cfg)
    ELSE ColumnsBySample(
            i + 1, names, samples, subsamples_dict, bysample,
            Ok(ColumnsSampleByCat(
                  1, ColumnsTargets(names[i], samples, subsamples_dict),
                  bysample[names[i]].bycategory,
                  ColumnsSampleInclusive(
                      bysample[names[i]].inclusive,
                      ColumnsTargets(names[i], samples, subsamples_dict),
                      r.cfg))))

\* Configurator.load_columns_config(wcfg): the error raised ("" for none) and
\* self.columns as the call leaves it
load_columns_config(wcfg, samples, subsamples_dict) ==
    ColumnsBySample(
        1, SampleNames \o SubsampleNames, samples, subsamples_dict,
        wcfg.bysample,
        Ok(IF wcfg.has_common
           THEN ColumnsCommonByCat(
                   1, wcfg.common.bycategory,
                   ColumnsCommonInclusive(
                       wcfg.common.inclusive,
                       ColumnsInit(samples, subsamples_dict)))
           ELSE ColumnsInit(samples, subsamples_dict)))

\* Configurator.load_workflow: self.workflow(cfg=self), the processor
load_workflow == "processor"

\* ------------------------------------------------- lib/weights.py: registry
\* the outcome of a class creation: the error raised ("" for none) and
\* WeightWrapperMeta.weight_classes as it is left
Created(reg) == [error |-> "", weight_classes |-> reg]
NotCreated(e, reg) == [error |-> e, weight_classes |-> reg]

Register_overwriting(class_name, clsdict, reg) ==
    IF "name" \notin DOMAIN clsdict THEN NotCreated("KeyError", reg)
    ELSE Created(Put(reg, clsdict["name"], class_name))

\* WeightWrapperMeta.__new__, lines 39-43: the class is stored under
\* clsdict["name"] unless the name is taken
Register(class_name, clsdict, reg) ==
    IF "name" \notin DOMAIN clsdict THEN NotCreated("KeyError", reg)
    ELSE IF clsdict["name"] \notin DOMAIN reg
    THEN Created(Put(reg, clsdict["name"], class_name))
    ELSE NotCreated("ValueError", reg)

\* WeightWrapperMeta.__new__, for base in bases.  r is the outcome so far.
RECURSIVE RegisterBases(_, _, _, _)
RegisterBases(bases, class_name, clsdict, r) ==
    IF r.error # "" \/ bases = <<>> THEN r
    ELSE RegisterBases(
            Tail(bases), class_name, clsdict,
            IF Head(bases) = "WeightWrapper"
            THEN Register(class_name, clsdict, r.weight_classes)
            ELSE r)

\* WeightWrapperMeta.__new__(metacls, name, bases, clsdict); bases holds the
\* __name__ of each base
__new__(name, bases, clsdict, reg) ==
    IF name = "WeightLambda" THEN Created(reg)
    ELSE RegisterBases(bases, name, clsdict, Created(reg))

\* WeightWrapperMeta.wrap_func(cls, name, function, has_variations,
\* variations): the outcome of the class creation, the name of the class and
\* _lambda_index as it is left
wrap_func(cls, name, reg, lambda_index) ==
    [created |-> __new__("WeightLambda_" \o ToString(lambda_index + 1),
                         <<cls>>, [name |-> name], reg),
     class_name |-> "WeightLambda_" \o ToString(lambda_index + 1),
     lambda_index |->
        IF __new__("WeightLambda_" \o ToString(lambda_index + 1),
                   <<cls>>, [name |-> name], reg).error = ""
        THEN lambda_index + 1 ELSE lambda_index]

\* ------------------------------------------------------------------ state
VARIABLES
    weightsConf,                      \* the weightsConf of the accumulator
    wm_status,                        \* "new", "ok", or the error of __init__
    _weightsIncl,                     \* self._weightsIncl
    _weightsByCat,                    \* self._weightsByCat
    _available_modifiers_inclusive,   \* self._available_modifiers_inclusive
    _available_modifiers_bycat,       \* self._available_modifiers_bycat
    calls,                            \* invocations of each callable
    nAdd,                             \* add_weight calls made
    last,                             \* the last call made and its outcome
    samples,                          \* Configurator.samples
    wcfg,                             \* the weights argument of Configurator
    vcfg,                             \* the variations argument: weights, shape
    weights_config,                   \* Configurator.weights_config
    variations_config,                \* Configurator.variations_config
    cfg_pc,                           \* the step __init__ is at
    cfg_error,                        \* the step that raised and its message
    subsamples_dict,                  \* datasets_cfg["subsamples"]: the names
    ccfg,                             \* the columns argument of Configurator
    columns,                          \* Configurator.columns
    processor_instance,               \* Configurator.processor_instance
    weight_classes,                   \* WeightWrapperMeta.weight_classes
    _lambda_index,                    \* WeightWrapperMeta._lambda_index
    classes,                          \* the weight classes created: name, base
    n_defs,                           \* class creations attempted
    reg_last,                         \* the last class creation and its outcome
    chunks,                           \* the accumulator each chunk is building
    _weightsCache,                    \* the compute caches, by their scope
    skim,                             \* the skim argument of Configurator
    preselections,                    \* the preselections argument
    categories,                       \* the categories argument
    self_skim,                        \* Configurator.skim
    self_preselections,               \* Configurator.preselections
    self_categories                   \* Configurator.categories

wm_vars == <<weightsConf, wm_status, _weightsIncl, _weightsByCat,
             _available_modifiers_inclusive, _available_modifiers_bycat,
             calls, nAdd, last>>

cfg_vars == <<samples, wcfg, vcfg, weights_config, variations_config,
              cfg_pc, cfg_error, subsamples_dict, ccfg, columns,
              processor_instance>>

reg_vars == <<weight_classes, _lambda_index, classes, n_defs, reg_last>>

chunk_vars == <<chunks, _weightsCache>>

cuts_vars == <<skim, preselections, categories,
               self_skim, self_preselections, self_categories>>

vars == <<wm_vars, cfg_vars, reg_vars, chunk_vars, cuts_vars>>

\* category, as Python's truth value of a string
Truthy(category) == category # ""

ResolvesInclusive_no_accumulator_test(category) ==
    category = None \/ weightsConf.is_split_bycat = FALSE

\* get_weight, line 208: the query is answered from the inclusive weights
ResolvesInclusive(category) ==
    \/ category = None
    \/ weightsConf.is_split_bycat = FALSE
    \/ category \notin DOMAIN _weightsByCat

InclusiveWeight_unchecked(modifier) ==
    WeightsWeight(_weightsIncl, modifier)

\* get_weight, lines 210-212: the inclusive weight
InclusiveWeight(modifier) ==
    IF modifier # None /\ modifier \notin _available_modifiers_inclusive
    THEN Raise("ValueError")
    ELSE WeightsWeight(_weightsIncl, modifier)

CategoryNominal_inclusive_only(category) ==
    WeightsWeight(_weightsIncl, None)

\* get_weight, lines 216-219: the nominal of the inclusive and of the split
\* weights
CategoryNominal(category) ==
    IF category \notin DOMAIN _weightsByCat THEN Raise("KeyError")
    ELSE Times(WeightsWeight(_weightsIncl, None),
               WeightsWeight(_weightsByCat[category], None))

CategoryVaried_both(category, modifier) ==
    IF category \notin DOMAIN _available_modifiers_bycat
       \/ category \notin DOMAIN _weightsByCat
    THEN Raise("KeyError")
    ELSE Times(WeightsWeight(_weightsIncl,
                   IF modifier \in _available_modifiers_inclusive
                   THEN modifier ELSE None),
               WeightsWeight(_weightsByCat[category],
                   IF modifier \in _available_modifiers_bycat[category]
                   THEN modifier ELSE None))

\* get_weight, lines 221-233: the modifier applied in the scope that has it
CategoryVaried(category, modifier) ==
    IF category \notin DOMAIN _available_modifiers_bycat
       \/ category \notin DOMAIN _weightsByCat
    THEN Raise("KeyError")
    ELSE IF modifier \in _available_modifiers_inclusive
            /\ modifier \notin _available_modifiers_bycat[category]
    THEN Times(WeightsWeight(_weightsIncl, modifier),
               WeightsWeight(_weightsByCat[category], None))
    ELSE IF modifier \notin _available_modifiers_inclusive
            /\ modifier \in _available_modifiers_bycat[category]
    THEN Times(WeightsWeight(_weightsIncl, None),
               WeightsWeight(_weightsByCat[category], modifier))
    ELSE Raise("ValueError")

\* WeightsManager.get_weight(category, modifier): the array returned, or the
\* error raised
get_weight(category, modifier) ==
    IF ResolvesInclusive(category) THEN InclusiveWeight(modifier)
    ELSE IF Truthy(category) /\ weightsConf.is_split_bycat = TRUE
    THEN IF modifier = None THEN CategoryNominal(category)
         ELSE CategoryVaried(category, modifier)
    ELSE [kind |-> "None", value |-> <<>>]

\* WeightsManager.add_weight(name, nominal, up, down, category): the inclusive
\* accumulator after the call and the error raised, if any.  t is the tuple
\* (name, nominal[, up, down]).
add_weight(t, category) ==
    IF category = None
    THEN [error |-> "", weightsIncl |-> WeightsAdd(_weightsIncl, t),
          weightsByCat |-> _weightsByCat]
    ELSE [error |-> "AttributeError", weightsIncl |-> _weightsIncl,
          weightsByCat |-> _weightsByCat]

\* ---------------------------------------------------------------- actions
\* the weightsConf dictionaries with at most MaxWeights entries
InitWM ==
    /\ \E a, b, c \in 0..MaxWeights :
         /\ a + b + c <= MaxWeights
         /\ \E incl \in [1..a -> Entries], sr \in [1..b -> Entries],
               cr \in [1..c -> Entries], split \in BOOLEAN :
              weightsConf = [inclusive |-> incl,
                             bycategory |-> [k \in Categories |->
                                               IF k = "SR" THEN sr ELSE cr],
                             is_split_bycat |-> split]
    /\ wm_status = "new"
    /\ _weightsIncl = WeightsNew
    /\ _weightsByCat = <<>>
    /\ _available_modifiers_inclusive = {}
    /\ _available_modifiers_bycat = <<>>
    /\ calls = [f \in Callables |-> 0]
    /\ nAdd = 0
    /\ last = [op |-> "none"]

\* no accumulator is built
IdleWM ==
    /\ weightsConf = [inclusive |-> <<>>,
                      bycategory |-> [k \in Categories |-> <<>>],
                      is_split_bycat |-> FALSE]
    /\ wm_status = "idle"
    /\ _weightsIncl = WeightsNew
    /\ _weightsByCat = <<>>
    /\ _available_modifiers_inclusive = {}
    /\ _available_modifiers_bycat = <<>>
    /\ calls = [f \in Callables |-> 0]
    /\ nAdd = 0
    /\ last = [op |-> "none"]

\* no Configurator is built
IdleCfg ==
    /\ samples = <<>>
    /\ wcfg = <<>>
    /\ vcfg = <<>>
    /\ weights_config = <<>>
    /\ variations_config = <<>>
    /\ cfg_pc = "idle"
    /\ cfg_error = [step |-> "", message |-> ""]
    /\ subsamples_dict = <<>>
    /\ ccfg = <<>>
    /\ columns = <<>>
    /\ processor_instance = None

\* the registry as the import of lib/weights.py leaves it: WeightWrapper has
\* no base named WeightWrapper and WeightLambda is skipped by name
IdleReg ==
    /\ weight_classes =
          __new__("WeightLambda", <<"WeightWrapper">>, <<>>,
                  __new__("WeightWrapper", <<"ABC">>,
                          [name |-> "base_weight"], <<>>).weight_classes
                 ).weight_classes
    /\ _lambda_index = 0
    /\ classes = <<>>
    /\ n_defs = 0
    /\ reg_last = [op |-> "none"]

\* the cuts and the categories are not looked at
IdleCuts ==
    /\ skim = <<>>
    /\ preselections = <<>>
    /\ categories = <<>>
    /\ self_skim = <<>>
    /\ self_preselections = <<>>
    /\ self_categories = <<>>

\* no chunk is processed
IdleChunks ==
    /\ chunks = <<>>
    /\ _weightsCache = <<>>

\* WeightsManager(weightsConf, size, events, metadata)
Construct ==
    /\ wm_status = "new"
    /\ LET r == WeightsManagerInit(weightsConf, calls) IN
        /\ wm_status' = r.status
        /\ _weightsIncl' = r.weightsIncl
        /\ _weightsByCat' = r.weightsByCat
        /\ _available_modifiers_inclusive' = r.modifiers_inclusive
        /\ _available_modifiers_bycat' = r.modifiers_bycat
        /\ calls' = r.calls
        /\ last' = [op |-> "init"]
    /\ UNCHANGED <<weightsConf, nAdd, cfg_vars, reg_vars, chunk_vars, cuts_vars>>

\* the categories and the modifiers the calls below are made with
QueryCategories == {None} \cup Categories
QueryModifiers ==
    {None, "nominal", "pileupUp", "my_wDown", "genWeightUp", "extraUp"}

get_weight_attributes_in_place(category, modifier) ==
    [weightsIncl |->
        IF WeightsWeight(_weightsIncl, modifier).kind = "array"
        THEN [_weightsIncl EXCEPT
                 !.weight = WeightsWeight(_weightsIncl, modifier).value]
        ELSE _weightsIncl,
     weightsByCat |-> _weightsByCat,
     modifiers_inclusive |-> _available_modifiers_inclusive,
     modifiers_bycat |-> _available_modifiers_bycat]

\* the attributes of self when get_weight returns or raises: the method has
\* no assignment, and Weights.weight returns a new array
get_weight_attributes(category, modifier) ==
    [weightsIncl |-> _weightsIncl,
     weightsByCat |-> _weightsByCat,
     modifiers_inclusive |-> _available_modifiers_inclusive,
     modifiers_bycat |-> _available_modifiers_bycat]

GetWeight ==
    /\ wm_status = "ok"
    /\ \E category \in QueryCategories, modifier \in QueryModifiers :
         /\ last' = [op |-> "get_weight", category |-> category,
                     modifier |-> modifier,
                     result |-> get_weight(category, modifier)]
         /\ _weightsIncl' = get_weight_attributes(category, modifier).weightsIncl
         /\ _weightsByCat' = get_weight_attributes(category, modifier).weightsByCat
         /\ _available_modifiers_inclusive' =
                get_weight_attributes(category, modifier).modifiers_inclusive
         /\ _available_modifiers_bycat' =
                get_weight_attributes(category, modifier).modifiers_bycat
    /\ UNCHANGED <<weightsConf, wm_status, calls, nAdd, cfg_vars, reg_vars, chunk_vars, cuts_vars>>

\* the weights a processor adds by hand: without and with variations
AddedWeights == {Tuple2("extra", Nominal(17)), Varied("extra", 17)}

AddWeight ==
    /\ wm_status = "ok"
    /\ nAdd < MaxAdd
    /\ \E t \in AddedWeights, category \in QueryCategories :
         LET r == add_weight(t, category) IN
           /\ _weightsIncl' = r.weightsIncl
           /\ _weightsByCat' = r.weightsByCat
           /\ last' = [op |-> "add_weight", category |-> category,
                       weight |-> t, error |-> r.error]
    /\ nAdd' = nAdd + 1
    /\ UNCHANGED <<weightsConf, wm_status, _available_modifiers_inclusive,
                   _available_modifiers_bycat, calls, cfg_vars, reg_vars, chunk_vars, cuts_vars>>

\* the accumulator of one chunk: built, then queried and added to
Init == InitWM /\ IdleCfg /\ IdleReg /\ IdleChunks /\ IdleCuts
Next == Construct \/ GetWeight \/ AddWeight
Spec == Init /\ [][Next]_vars

\* ------------------------------------------------- Configurator: the inputs
\* The configurations are dictionaries; an entry of a configuration is placed
\* in one of its lists: of the kind (weights, or the weights or shape
\* variations), the layer (common, or the sample of bysample) and the scope
\* (inclusive, or the category of bycategory).  A "bycategory", "bysample",
\* sample or category key with no entry is left out of the dictionary, which
\* the loops treat as an empty list.
ConfigKinds == <<"weights", "variations_weights", "variations_shape", "columns">>
Layers == <<"common">> \o SampleNames \o SubsampleNames
Scopes == <<"inclusive">> \o CategoryOrder

IndexOf(seq, x) == CHOOSE i \in DOMAIN seq : seq[i] = x

WeightEntries ==
    {Str("pileup"), Str("sf_jet_puId"), Str("sf_does_not_exist"),
     WeightCustom("my_w", "fA")}
VariationEntries == {Str("pileup"), Str("jes_does_not_exist")}
ColumnEntries == {Str("col_pt")}

\* the entries a configuration of kind k can list, and the keys it can have
EntriesOf(k) ==
    IF k = "weights" THEN WeightEntries
    ELSE IF k = "columns" THEN ColumnEntries
    ELSE VariationEntries
LayersOf(k) ==
    IF k = "columns" THEN ToSet(Layers)
    ELSE {"common"} \cup ToSet(SampleNames)

Items ==
    UNION {
      {[kind |-> k, layer |-> l, scope |-> sc, entry |-> e,
        rank |-> (IndexOf(ConfigKinds, k) * Len(Layers) + IndexOf(Layers, l))
                   * Len(Scopes) + IndexOf(Scopes, sc)] :
          l \in LayersOf(k), sc \in ToSet(Scopes), e \in EntriesOf(k)} :
      k \in ToSet(ConfigKinds)}

\* the entries of one list, in the order they are written
Listing(items, k, l, sc) ==
    LET sel == SelectSeq(items, LAMBDA it : it.kind = k /\ it.layer = l /\ it.scope = sc)
    IN [i \in DOMAIN sel |-> sel[i].entry]

\* the dictionary of kind k that the items make
ConfigOf(items, k, has_common) ==
    [has_common |-> has_common,
     common |-> [inclusive |-> Listing(items, k, "common", "inclusive"),
                 bycategory |-> [c \in Categories |-> Listing(items, k, "common", c)]],
     bysample |->
        [s \in {x \in ToSet(Layers) \ {"common"} :
                  \E i \in DOMAIN items : items[i].kind = k /\ items[i].layer = x} |->
            [inclusive |-> Listing(items, k, s, "inclusive"),
             bycategory |-> [c \in Categories |-> Listing(items, k, s, c)]]]]

\* the kinds whose dictionary can lack the "common" key: those that list
\* nothing under it, in a configuration of at most one entry
CanLackCommon(items) ==
    {k \in ToSet(ConfigKinds) :
        /\ Len(items) <= 1
        /\ \A i \in DOMAIN items :
              ~(items[i].kind = k /\ items[i].layer = "common")}

\* Configurator(...) is called with configurations of at most MaxEntries
\* entries, on datasets of one or two samples, the first of them with or
\* without subsamples; one of the configurations may lack its "common" key
InitCfg ==
    /\ \E n \in 0..MaxEntries : \E items \in [1..n -> Items] :
         /\ \A i \in 1..(n - 1) : items[i].rank <= items[i + 1].rank
         /\ \E nocommon \in {""} \cup CanLackCommon(items) :
              /\ wcfg = ConfigOf(items, "weights", nocommon # "weights")
              /\ vcfg = [weights |-> ConfigOf(items, "variations_weights",
                                               nocommon # "variations_weights"),
                         shape |-> ConfigOf(items, "variations_shape",
                                             nocommon # "variations_shape")]
              /\ ccfg = ConfigOf(items, "columns", nocommon # "columns")
    /\ samples \in {SubSeq(SampleNames, 1, k) : k \in 1..Len(SampleNames)}
    /\ subsamples_dict \in {<<>>, [s \in {SampleNames[1]} |-> SubsampleNames]}
    /\ weights_config = EmptyWeightsConfig(samples)
    /\ variations_config = EmptyVariationsConfig(samples)
    /\ columns = <<>>
    /\ processor_instance = None
    /\ cfg_pc = "weights"
    /\ cfg_error = [step |-> "", message |-> ""]

\* ------------------------------------------------ Configurator: the steps
\* the steps of __init__ from the weights on, in the order of the code
Steps == <<"weights", "variations_weights", "variations_shape", "columns",
           "workflow", "done">>

NextStep_columns_error_ignored(step, err) ==
    IF err # "" /\ step # "columns" THEN "error"
    ELSE Steps[IndexOf(Steps, step) + 1]

\* __init__, lines 90-135: an exception of a step ends the construction,
\* otherwise the following statement runs
NextStep(step, err) ==
    IF err # "" THEN "error" ELSE Steps[IndexOf(Steps, step) + 1]

\* __init__: self.load_weights_config(weights)
LoadWeightsConfig ==
    /\ cfg_pc = "weights"
    /\ LET r == load_weights_config(wcfg, samples, weights_config, available_weights) IN
        /\ weights_config' = r.cfg
        /\ cfg_pc' = NextStep("weights", r.err)
        /\ cfg_error' = IF r.err = "" THEN cfg_error
                         ELSE [step |-> "weights", message |-> r.err]
    /\ UNCHANGED <<samples, wcfg, vcfg, variations_config, subsamples_dict,
                   ccfg, columns, processor_instance, wm_vars, reg_vars, chunk_vars, cuts_vars>>

\* __init__: self.load_variations_config(variations[type], variation_type=type)
LoadVariationsConfig(type) ==
    /\ cfg_pc = "variations_" \o type
    /\ LET r == load_variations_config(vcfg[type], type, samples,
                                       variations_config, available_variations) IN
        /\ variations_config' = r.cfg
        /\ cfg_pc' = NextStep("variations_" \o type, r.err)
        /\ cfg_error' = IF r.err = "" THEN cfg_error
                         ELSE [step |-> "variations_" \o type, message |-> r.err]
    /\ UNCHANGED <<samples, wcfg, vcfg, weights_config, subsamples_dict,
                   ccfg, columns, processor_instance, wm_vars, reg_vars, chunk_vars, cuts_vars>>

\* __init__: self.columns = {}; self.load_columns_config(columns)
LoadColumnsConfig ==
    /\ cfg_pc = "columns"
    /\ LET r == load_columns_config(ccfg, samples, subsamples_dict) IN
        /\ columns' = r.cfg
        /\ cfg_pc' = NextStep("columns", r.err)
        /\ cfg_error' = IF r.err = "" THEN cfg_error
                         ELSE [step |-> "columns", message |-> r.err]
    /\ UNCHANGED <<samples, wcfg, vcfg, weights_config, variations_config,
                   subsamples_dict, ccfg, processor_instance, wm_vars, reg_vars, chunk_vars, cuts_vars>>

\* __init__: self.load_workflow()
LoadWorkflow ==
    /\ cfg_pc = "workflow"
    /\ processor_instance' = load_workflow
    /\ cfg_pc' = NextStep("workflow", "")
    /\ UNCHANGED <<samples, wcfg, vcfg, weights_config, variations_config,
                   subsamples_dict, ccfg, columns, cfg_error, wm_vars, reg_vars, chunk_vars, cuts_vars>>

NextCfg ==
    \/ LoadWeightsConfig
    \/ LoadVariationsConfig("weights")
    \/ LoadVariationsConfig("shape")
    \/ LoadColumnsConfig
    \/ LoadWorkflow

InitConfigurator == InitCfg /\ IdleWM /\ IdleReg /\ IdleChunks /\ IdleCuts
SpecCfg == InitConfigurator /\ [][NextCfg]_vars

\* ------------------------------------- Configurator: cuts and categories
\* a Cut object, the passthrough cut of lib/cut_functions, and an entry that
\* is not a Cut
Cut(id) == [kind |-> "Cut", id |-> id]
passthrough == Cut("passthrough")
NotACut == [kind |-> "str", id |-> "nJet >= 4"]
IsCut(x) == x.kind = "Cut"

\* for x in list: if not isinstance(x, Cut): raise; <attribute>.append(x):
\* the index of the entry that raises, 0 without one
FirstNotCut(list) ==
    IF \A i \in DOMAIN list : IsCut(list[i]) THEN 0
    ELSE CHOOSE i \in DOMAIN list :
            /\ ~IsCut(list[i])
            /\ \A j \in 1..(i - 1) : IsCut(list[j])
Appended(list) ==
    IF FirstNotCut(list) = 0 THEN list
    ELSE SubSeq(list, 1, FirstNotCut(list) - 1)

\* the argument after: if len(arg) == 0: arg.append(passthrough)
WithPassthrough(list) == IF Len(list) = 0 THEN <<passthrough>> ELSE list

\* the argument after: if categories == {}: categories["baseline"] = [passthrough]
WithBaseline(cats) ==
    IF cats = <<>> THEN [c \in {"baseline"} |-> <<passthrough>>] ELSE cats

\* Configurator.load_cuts_and_categories(skim, preselections, categories), on
\* self.skim = [] and self.preselections = []: the error raised, the three
\* arguments and the three attributes after the call
load_cuts_and_categories(sk, pres, cats) ==
    IF Len(pres) = 0
    THEN [err |-> "AttributeError",
          skim |-> WithPassthrough(sk), preselections |-> pres,
          categories |-> cats,
          self_skim |-> <<>>, self_preselections |-> <<>>,
          self_categories |-> <<>>]
    ELSE IF FirstNotCut(WithPassthrough(sk)) # 0
    THEN [err |-> "Wrong categories/cuts configuration",
          skim |-> WithPassthrough(sk), preselections |-> pres,
          categories |-> WithBaseline(cats),
          self_skim |-> Appended(WithPassthrough(sk)),
          self_preselections |-> <<>>, self_categories |-> <<>>]
    ELSE IF FirstNotCut(pres) # 0
    THEN [err |-> "Wrong categories/cuts configuration",
          skim |-> WithPassthrough(sk), preselections |-> pres,
          categories |-> WithBaseline(cats),
          self_skim |-> WithPassthrough(sk),
          self_preselections |-> Appended(pres), self_categories |-> <<>>]
    ELSE [err |-> "",
          skim |-> WithPassthrough(sk), preselections |-> pres,
          categories |-> WithBaseline(cats),
          self_skim |-> WithPassthrough(sk),
          self_preselections |-> pres,
          self_categories |-> WithBaseline(cats)]

\* the lists of cuts and the categories a configuration file may give
CutLists == {<<>>, <<Cut("nJet")>>, <<Cut("nJet"), NotACut>>}
CategoryDicts ==
    {<<>>, [c \in Categories |-> <<Cut(c)>>]}

\* {"common": {"inclusive": []}}
EmptyCommon(k) == ConfigOf(<<>>, k, TRUE)

\* Configurator(...) is called with the cuts and the categories of the file,
\* on one sample, with configurations that list nothing; the weights may
\* lack the "common" key, the variations the "shape" key
InitCuts ==
    /\ skim \in CutLists
    /\ preselections \in CutLists
    /\ categories \in CategoryDicts
    /\ self_skim = <<>>
    /\ self_preselections = <<>>
    /\ self_categories = <<>>
    /\ samples = <<SampleNames[1]>>
    /\ wcfg \in {EmptyCommon("weights"), ConfigOf(<<>>, "weights", FALSE)}
    /\ vcfg \in {[k \in {"weights"} |-> EmptyCommon("variations_weights")],
                 [k \in {"weights", "shape"} |->
                     EmptyCommon("variations_" \o k)]}
    /\ ccfg = EmptyCommon("columns")
    /\ subsamples_dict = <<>>
    /\ weights_config = <<>>
    /\ variations_config = <<>>
    /\ columns = <<>>
    /\ processor_instance = None
    /\ cfg_pc = "cuts"
    /\ cfg_error = [step |-> "", message |-> ""]

\* __init__, lines 77-89: self.skim, self.preselections,
\* load_cuts_and_categories, and the empty weights_config by category
LoadCutsAndCategories ==
    /\ cfg_pc = "cuts"
    /\ LET r == load_cuts_and_categories(skim, preselections, categories) IN
        /\ skim' = r.skim
        /\ preselections' = r.preselections
        /\ categories' = r.categories
        /\ self_skim' = r.self_skim
        /\ self_preselections' = r.self_preselections
        /\ self_categories' = r.self_categories
        /\ cfg_pc' = IF r.err # "" THEN "error" ELSE "weights"
        /\ cfg_error' = IF r.err = "" THEN cfg_error
                         ELSE [step |-> "cuts", message |-> r.err]
        /\ weights_config' =
              IF r.err # "" THEN weights_config
              ELSE [s \in ToSet(samples) |->
                      [inclusive |-> <<>>,
                       bycategory |-> [c \in DOMAIN r.self_categories |-> <<>>],
                       is_split_bycat |-> FALSE]]
    /\ UNCHANGED <<samples, wcfg, vcfg, variations_config, subsamples_dict,
                   ccfg, columns, processor_instance, wm_vars, reg_vars,
                   chunk_vars>>

\* __init__, lines 96-104: the empty variations_config by category, and
\* variations["shape"] when the key is missing
InitVariationsConfig ==
    /\ cfg_pc = "variations_weights"
    /\ variations_config = <<>>
    /\ variations_config' =
          [s \in ToSet(samples) |->
              [weights |-> [c \in DOMAIN self_categories |-> <<>>],
               shape |-> [c \in DOMAIN self_categories |-> <<>>]]]
    /\ vcfg' = IF "shape" \in DOMAIN vcfg THEN vcfg
               ELSE Put(vcfg, "shape", EmptyCommon("variations_shape"))
    /\ UNCHANGED <<samples, wcfg, weights_config, cfg_pc, cfg_error,
                   subsamples_dict, ccfg, columns, processor_instance,
                   wm_vars, reg_vars, chunk_vars, cuts_vars>>

InitSelections == InitCuts /\ IdleWM /\ IdleReg /\ IdleChunks
NextCuts == LoadCutsAndCategories \/ LoadWeightsConfig \/ InitVariationsConfig
SpecCuts == InitSelections /\ [][NextCuts]_vars

\* ------------------------------------------------ the registry: the steps
\* the names user code gives to its weights, and the class bodies it writes:
\* with a name attribute or without
WeightNames == {"my_weight", "other_weight"}
ClassBodies == {<<>>} \cup {[name |-> n] : n \in WeightNames}

\* the name attribute of a class: its own, or the one it inherits
NameOf(base, clsdict) ==
    IF "name" \in DOMAIN clsdict THEN clsdict["name"]
    ELSE IF base \in DOMAIN classes THEN classes[base].name
    ELSE "base_weight"

\* class UserWeight_<n>(base): <clsdict>, in user code
DefineClass ==
    /\ n_defs < MaxClasses
    /\ \E base \in {"WeightWrapper", "WeightLambda"} \cup DOMAIN classes,
          clsdict \in ClassBodies :
         LET class_name == "UserWeight_" \o ToString(n_defs + 1)
             r == __new__(class_name, <<base>>, clsdict, weight_classes)
         IN /\ weight_classes' = r.weight_classes
            /\ classes' = IF r.error # "" THEN classes
                          ELSE Put(classes, class_name,
                                   [base |-> base, name |-> NameOf(base, clsdict),
                                    own |-> "name" \in DOMAIN clsdict])
            /\ reg_last' = [op |-> "class", class_name |-> class_name,
                            base |-> base, clsdict |-> clsdict,
                            error |-> r.error]
    /\ n_defs' = n_defs + 1
    /\ UNCHANGED <<_lambda_index, wm_vars, cfg_vars, chunk_vars, cuts_vars>>

\* cls.wrap_func(name, function, has_variations, variations), for cls one of
\* the two classes of lib/weights.py
WrapFunc ==
    /\ n_defs < MaxClasses
    /\ \E cls \in {"WeightWrapper", "WeightLambda"}, name \in WeightNames :
         LET r == wrap_func(cls, name, weight_classes, _lambda_index) IN
            /\ weight_classes' = r.created.weight_classes
            /\ _lambda_index' = r.lambda_index
            /\ classes' = IF r.created.error # "" THEN classes
                          ELSE Put(classes, r.class_name,
                                   [base |-> cls, name |-> name, own |-> TRUE])
            /\ reg_last' = [op |-> "wrap_func", class_name |-> r.class_name,
                            base |-> cls, clsdict |-> [name |-> name],
                            error |-> r.created.error]
    /\ n_defs' = n_defs + 1
    /\ UNCHANGED <<wm_vars, cfg_vars, chunk_vars, cuts_vars>>

\* the registry of one process: weight classes are created one after another
InitRegistry == IdleWM /\ IdleCfg /\ IdleReg /\ IdleChunks /\ IdleCuts
NextReg == DefineClass \/ WrapFunc
SpecReg == InitRegistry /\ [][NextReg]_vars

\* ------------------------------------- accumulators of several chunks
\* The executor builds one WeightsManager for every chunk of a sample, all
\* from the sample's weightsConf; the constructions may interleave between
\* any two entries of the configuration.
Chunks == 1..NChunks

\* the arrays of chunk k: its events differ from those of the other chunks
ChunkArray(k, a) == [e \in DOMAIN a |-> a[e] * k]

\* self._compute_weight(w, events) or w.function(events, metadata) on the
\* events of chunk k; a tuple remembers the chunk it was computed from
ChunkCompute(k, w) ==
    [i \in DOMAIN Compute(w) |->
        [name |-> Compute(w)[i].name, len |-> Compute(w)[i].len,
         nominal |-> ChunkArray(k, Compute(w)[i].nominal),
         up |-> ChunkArray(k, Compute(w)[i].up),
         down |-> ChunkArray(k, Compute(w)[i].down),
         chunk |-> k]]

\* the entries __init__ goes through, in its order, each with the scope it
\* is added to
Scoped(scope, ws) == [i \in DOMAIN ws |-> [scope |-> scope, w |-> ws[i]]]
RECURSIVE CategoryWork(_, _)
CategoryWork(i, conf) ==
    IF i > Len(CategoryOrder) THEN <<>>
    ELSE Scoped(CategoryOrder[i], conf.bycategory[CategoryOrder[i]])
         \o CategoryWork(i + 1, conf)
WorkList(conf) ==
    Scoped("inclusive", conf.inclusive)
    \o (IF conf.is_split_bycat THEN CategoryWork(1, conf) ELSE <<>>)

CacheScope_module_level(k) == 0

\* _weightsCache = {} is a local variable of __init__: the cache of the call
\* that builds the accumulator of chunk k.  Scope 0 is the module.
CacheScope(k) == k

\* __init__ down to the definition of __add_weight
NewChunk ==
    [pc |-> "new", pos |-> 1, weightsIncl |-> WeightsNew, weightsByCat |-> <<>>,
     modifiers_inclusive |-> <<>>, modifiers_bycat |-> <<>>, added |-> <<>>]

\* the accumulator of a scope: self._weightsIncl, or self._weightsByCat[cat],
\* created before the first weight of the category
WeightObj(c, scope) ==
    IF scope = "inclusive" THEN c.weightsIncl
    ELSE IF scope \in DOMAIN c.weightsByCat THEN c.weightsByCat[scope]
    ELSE WeightsNew

\* the list of modifiers of a scope (a defaultdict for the categories)
ModifierList(c, scope) ==
    IF scope = "inclusive" THEN c.modifiers_inclusive
    ELSE IF scope \in DOMAIN c.modifiers_bycat THEN c.modifiers_bycat[scope]
    ELSE <<>>

\* the chunk after the tuples ts were added to the accumulator of the scope
\* and their modifiers to the scope's list
WithTuples(c, scope, ts) ==
    IF scope = "inclusive"
    THEN [c EXCEPT !.pos = @ + 1,
                   !.weightsIncl = AddTuples(@, ts),
                   !.modifiers_inclusive = @ \o InstalledModifiers(ts),
                   !.added = @ \o ts]
    ELSE [c EXCEPT !.pos = @ + 1,
                   !.weightsByCat =
                       Put(@, scope, AddTuples(WeightObj(c, scope), ts)),
                   !.modifiers_bycat =
                       Put(@, scope, ModifierList(c, scope) \o InstalledModifiers(ts)),
                   !.added = @ \o ts]

\* one turn of the loops of __init__ for chunk k: __add_weight(w, weight_obj)
\* with the cache it finds, and the += of the modifiers
AddWeightOfChunk(k, c, item, cache) ==
    IF item.w.kind = "str" /\ item.w.name \notin available_weights
    THEN [chunk |-> [c EXCEPT !.pc = "TypeError"], cache |-> cache]
    ELSE IF CacheKey(item.w) \in DOMAIN cache
    THEN [chunk |-> WithTuples(c, item.scope, cache[CacheKey(item.w)]),
          cache |-> cache]
    ELSE [chunk |-> WithTuples(c, item.scope, ChunkCompute(k, item.w)),
          cache |-> CachePut(cache, CacheKey(item.w), ChunkCompute(k, item.w))]

\* the workers start on the chunks of a sample
InitChunks ==
    /\ \E a, b, c \in 0..MaxWeights :
         /\ a + b + c <= MaxWeights
         /\ \E incl \in [1..a -> Entries], sr \in [1..b -> Entries],
               cr \in [1..c -> Entries], split \in BOOLEAN :
              weightsConf = [inclusive |-> incl,
                             bycategory |-> [k \in Categories |->
                                               IF k = "SR" THEN sr ELSE cr],
                             is_split_bycat |-> split]
    /\ wm_status = "idle"
    /\ _weightsIncl = WeightsNew
    /\ _weightsByCat = <<>>
    /\ _available_modifiers_inclusive = {}
    /\ _available_modifiers_bycat = <<>>
    /\ calls = [f \in Callables |-> 0]
    /\ nAdd = 0
    /\ last = [op |-> "none"]
    /\ chunks = [k \in Chunks |-> NewChunk]
    /\ _weightsCache = [j \in 0..NChunks |-> <<>>]

\* __init__, lines 56-72: the attributes and the empty cache
Begin(k) ==
    /\ chunks[k].pc = "new"
    /\ chunks' = [chunks EXCEPT ![k].pc = "adding"]
    /\ _weightsCache' = [_weightsCache EXCEPT ![CacheScope(k)] = <<>>]
    /\ UNCHANGED <<wm_vars, cfg_vars, reg_vars, cuts_vars>>

\* __init__, lines 103-119: the next entry of the configuration
AddNext(k) ==
    /\ chunks[k].pc = "adding"
    /\ chunks[k].pos <= Len(WorkList(weightsConf))
    /\ LET r == AddWeightOfChunk(k, chunks[k],
                                 WorkList(weightsConf)[chunks[k].pos],
                                 _weightsCache[CacheScope(k)]) IN
        /\ chunks' = [chunks EXCEPT ![k] = r.chunk]
        /\ _weightsCache' = [_weightsCache EXCEPT ![CacheScope(k)] = r.cache]
    /\ UNCHANGED <<wm_vars, cfg_vars, reg_vars, cuts_vars>>

\* __init__, lines 122-128: the modifier lists made sets, the cache cleared
Finish(k) ==
    /\ chunks[k].pc = "adding"
    /\ chunks[k].pos > Len(WorkList(weightsConf))
    /\ chunks' = [chunks EXCEPT
                    ![k].pc = "ok",
                    ![k].modifiers_inclusive = ToSet(@),
                    ![k].modifiers_bycat = [c \in DOMAIN @ |-> ToSet(@[c])]]
    /\ _weightsCache' = [_weightsCache EXCEPT ![CacheScope(k)] = <<>>]
    /\ UNCHANGED <<wm_vars, cfg_vars, reg_vars, cuts_vars>>

InitExecutor == InitChunks /\ IdleCfg /\ IdleReg /\ IdleCuts
NextChunks == \E k \in Chunks : Begin(k) \/ AddNext(k) \/ Finish(k)
SpecChunks == InitExecutor /\ [][NextChunks]_vars

\* ------------------------------------------- properties of the accumulator
\* the names a modifier is made of, and all the modifiers asked for
ModifierNames == {"pileup", "my_w", "genWeight", "lumi", "XS", "extra"}
AllModifiers ==
    {n \o d : n \in ModifierNames, d \in {"Up", "Down"}} \cup {"nominal"}

\* the categories with an accumulator of their own
Dedicated ==
    IF wm_status = "ok" /\ weightsConf.is_split_bycat
    THEN DOMAIN _weightsByCat ELSE {}

\* C1: with category splitting on and an accumulator for c, a modifier
\* available only in c's scope gives inclusive nominal times c varied, one
\* available only inclusively gives inclusive varied times c nominal, and a
\* modifier available in both scopes gives no array at all
NoDoubleCounting ==
    \A c \in Dedicated : \A m \in AllModifiers :
        LET incl == m \in _available_modifiers_inclusive
            cat == m \in _available_modifiers_bycat[c]
        IN /\ (cat /\ ~incl) =>
                /\ get_weight(c, m).kind = "array"
                /\ get_weight(c, m) =
                     Times(WeightsWeight(_weightsIncl, None),
                           WeightsWeight(_weightsByCat[c], m))
           /\ (incl /\ ~cat) =>
                /\ get_weight(c, m).kind = "array"
                /\ get_weight(c, m) =
                     Times(WeightsWeight(_weightsIncl, m),
                           WeightsWeight(_weightsByCat[c], None))
           /\ (incl /\ cat) => get_weight(c, m).kind # "array"

\* a variation of a category-only weight was asked for in that category, on
\* top of a non-empty inclusive list
NoDoubleCountingReached ==
    /\ last.op = "get_weight"
    /\ last.category \in Dedicated
    /\ last.modifier = "my_wDown"
    /\ last.modifier \in _available_modifiers_bycat[last.category]
    /\ last.modifier \notin _available_modifiers_inclusive
    /\ Len(weightsConf.inclusive) > 0
    /\ last.result.kind = "array"
    /\ last.result # get_weight(last.category, None)

\* C4: with category splitting on and an accumulator for c, the nominal weight
\* of c is the inclusive nominal times the nominal of c's accumulator
NominalComposition ==
    \A c \in Dedicated :
        /\ get_weight(c, None).kind = "array"
        /\ get_weight(c, None) =
             Times(get_weight(None, None),
                   Array(_weightsByCat[c].weight))
        /\ get_weight(None, None) = Array(_weightsIncl.weight)

\* the nominal weight of a category with weights of its own was asked for
NominalCompositionReached ==
    /\ last.op = "get_weight"
    /\ last.category \in Dedicated
    /\ last.modifier = None
    /\ Len(weightsConf.inclusive) > 0
    /\ Len(weightsConf.bycategory[last.category]) > 0
    /\ last.result.kind = "array"
    /\ last.result # get_weight(None, None)

\* C5: without a category, with splitting off, or for a category without an
\* accumulator, get_weight answers as the inclusive query does, for every
\* modifier
InclusiveFallback ==
    wm_status = "ok" =>
      \A c \in QueryCategories : \A m \in AllModifiers \cup {None} :
          (\/ c = None
           \/ ~weightsConf.is_split_bycat
           \/ c \notin DOMAIN _weightsByCat) =>
             /\ get_weight(c, m) = get_weight(None, m)
             /\ get_weight(c, m) =
                  IF m = None \/ m \in _available_modifiers_inclusive
                  THEN WeightsWeight(_weightsIncl, m)
                  ELSE Raise("ValueError")

\* splitting is on, CR has an accumulator and SR has none: SR is asked for
\* with an inclusive modifier
InclusiveFallbackReached ==
    /\ last.op = "get_weight"
    /\ last.category = "SR"
    /\ weightsConf.is_split_bycat
    /\ "CR" \in DOMAIN _weightsByCat
    /\ "SR" \notin DOMAIN _weightsByCat
    /\ last.modifier = "pileupUp"
    /\ last.result.kind = "array"
    /\ last.result = WeightsWeight(_weightsIncl, "pileupUp")

\* C6: a modifier other than None that is not available in the scope asked
\* for raises the error, as does, for a category, a modifier available in both
\* scopes or in neither; genWeight, lumi and XS make no modifier available
ModifierErrors ==
    /\ \A n \in {"genWeight", "lumi", "XS"} :
           InstalledModifiers(_compute_weight(n)) = <<>>
    /\ wm_status = "ok" =>
         \A c \in QueryCategories : \A m \in AllModifiers :
            /\ (c \notin Dedicated /\ m \notin _available_modifiers_inclusive)
                  => get_weight(c, m) = Raise("ValueError")
            /\ (c \in Dedicated /\ (m \in _available_modifiers_inclusive
                                    <=> m \in _available_modifiers_bycat[c]))
                  => get_weight(c, m) = Raise("ValueError")
            /\ \A n \in {"genWeight", "lumi", "XS"}, d \in {"Up", "Down"} :
                  /\ n \o d \notin _available_modifiers_inclusive
                  /\ \A k \in DOMAIN _available_modifiers_bycat :
                        n \o d \notin _available_modifiers_bycat[k]

\* genWeight is in the inclusive list and its up variation was asked for
ModifierErrorsReached ==
    /\ last.op = "get_weight"
    /\ last.category = None
    /\ last.modifier = "genWeightUp"
    /\ Str("genWeight") \in ToSet(weightsConf.inclusive)
    /\ last.result = Raise("ValueError")

\* the entries the constructor goes through: the inclusive list and, with
\* splitting on, the lists of the categories
Referenced ==
    ToSet(weightsConf.inclusive) \cup
    (IF weightsConf.is_split_bycat
     THEN UNION {ToSet(weightsConf.bycategory[c]) : c \in Categories}
     ELSE {})

\* C3: after construction every weight referenced by the configuration has
\* been computed exactly once, however many lists name it
SingleComputation ==
    wm_status = "ok" => \A w \in Referenced : calls[Callable(w)] = 1

\* the entries of a list that the constructor can compute
Computable(w) == w.kind = "custom" \/ w.name \in available_weights
Without(conf) ==
    [inclusive |-> SelectSeq(conf.inclusive, Computable),
     bycategory |-> [c \in Categories |->
                       SelectSeq(conf.bycategory[c], Computable)],
     is_split_bycat |-> conf.is_split_bycat]

\* C9: a string that is not a built-in weight name is skipped: construction
\* succeeds and the accumulators are those of the configuration without it
UnknownNameSkipped ==
    last.op = "init" =>
      LET r == WeightsManagerInit(Without(weightsConf),
                                  [f \in Callables |-> 0])
      IN /\ wm_status = "ok"
         /\ _weightsIncl = r.weightsIncl
         /\ \A c \in DOMAIN r.weightsByCat :
               /\ c \in DOMAIN _weightsByCat
               /\ _weightsByCat[c] = r.weightsByCat[c]

\* C10: add_weight without a category multiplies the weight into the
\* inclusive accumulator only; with a category that has an accumulator it
\* multiplies it into that category's accumulator only
AddWeightScope ==
    [][(nAdd' = nAdd + 1) =>
         IF last'.category = None
         THEN /\ last'.error = ""
              /\ _weightsIncl' = WeightsAdd(_weightsIncl, last'.weight)
              /\ _weightsByCat' = _weightsByCat
         ELSE last'.category \in DOMAIN _weightsByCat =>
              /\ last'.error = ""
              /\ _weightsIncl' = _weightsIncl
              /\ _weightsByCat' =
                   [_weightsByCat EXCEPT ![last'.category] =
                        WeightsAdd(@, last'.weight)]]_vars

\* C11: a call of get_weight, returning or raising, leaves the inclusive
\* accumulator, the accumulators of the categories and both collections of
\* available modifiers as they were, so the same call made again gives the
\* same result
PureQuery ==
    [][(last'.op = "get_weight" /\ nAdd' = nAdd) =>
         /\ _weightsIncl' = _weightsIncl
         /\ _weightsByCat' = _weightsByCat
         /\ _available_modifiers_inclusive' = _available_modifiers_inclusive
         /\ _available_modifiers_bycat' = _available_modifiers_bycat
         /\ last'.result = get_weight(last'.category, last'.modifier)
         /\ \A c \in QueryCategories : \A m \in QueryModifiers :
               get_weight(c, m)' = get_weight(c, m)]_vars

\* an inclusive variation was asked for, and asking again gives the same
\* array
PureQueryReached ==
    /\ last.op = "get_weight"
    /\ last.modifier = "pileupUp"
    /\ last.result.kind = "array"
    /\ last.result # get_weight(last.category, None)
    /\ last.result = get_weight(last.category, last.modifier)

\* the names under which the built-in weights are computed with an up and a
\* down array
WithVariations ==
    {t.name : t \in {u \in UNION {ToSet(_compute_weight(w)) :
                                     w \in available_weights} : u.len > 2}}

\* C17: the available variations are the literal "nominal" and, for every
\* weight that has variations, the tokens <name>Up and <name>Down
VariationTokens ==
    wm_status \in {"new", "ok", "TypeError"} =>
       available_variations =
          {"nominal"} \cup {n \o d : n \in WithVariations, d \in {"Up", "Down"}}

\* the modifiers that the weights of a list produce: <n>Up and <n>Down for
\* every tuple n with variations that the weight's own computation returns
Produced(ws) ==
    UNION {ToSet(InstalledModifiers(Compute(ws[i]))) : i \in DOMAIN ws}

\* C21: after construction the inclusive modifiers are exactly those produced
\* by the weights of the inclusive list, and the modifiers of a category are
\* exactly those produced by the weights of the category's list
ModifierTracking ==
    wm_status = "ok" =>
      /\ _available_modifiers_inclusive = Produced(weightsConf.inclusive)
      /\ \A c \in DOMAIN _available_modifiers_bycat :
            _available_modifiers_bycat[c] = Produced(weightsConf.bycategory[c])

\* C22: after construction a category has an accumulator of its own exactly
\* when splitting is on and its list is not empty, the categories with an
\* accumulator are those with a set of modifiers, and get_weight returns an
\* array or raises the modifier error for every category and modifier
DedicatedAccumulators ==
    wm_status = "ok" =>
      /\ DOMAIN _weightsByCat =
            {c \in Categories : /\ weightsConf.is_split_bycat
                                /\ Len(weightsConf.bycategory[c]) > 0}
      /\ DOMAIN _available_modifiers_bycat = DOMAIN _weightsByCat
      /\ \A c \in QueryCategories : \A m \in QueryModifiers :
            get_weight(c, m).kind \in {"array", "ValueError"}

\* SR has an accumulator whose weights have no variation, CR has a list but
\* splitting gave it none, and a variation was asked for in SR
DedicatedAccumulatorsReached ==
    /\ last.op = "get_weight"
    /\ last.category = "SR"
    /\ last.modifier = "pileupUp"
    /\ weightsConf.is_split_bycat
    /\ Len(weightsConf.bycategory["CR"]) = 0
    /\ DOMAIN _weightsByCat = {"SR"}
    /\ _available_modifiers_bycat["SR"] = {}
    /\ last.result.kind = "array"

\* the registry as the import of the library leaves it
ImportedRegistry ==
    __new__("WeightLambda", <<"WeightWrapper">>, <<>>,
            __new__("WeightWrapper", <<"ABC">>,
                    [name |-> "base_weight"], <<>>).weight_classes
           ).weight_classes

\* C23: whatever the interleaving of the constructions, every tuple added to
\* the accumulator of a chunk was computed from the events of that chunk, no
\* cache outlives the constructor call it belongs to, and a step of a
\* construction leaves the configuration and the registry as they were
ChunkIsolation ==
    /\ [](\A k \in DOMAIN chunks :
            /\ \A i \in DOMAIN chunks[k].added : chunks[k].added[i].chunk = k
            /\ chunks[k].pc \in {"new", "ok"} => _weightsCache[k] = <<>>
            /\ _weightsCache[0] = <<>>)
    /\ [][/\ weightsConf' = weightsConf
          /\ weight_classes' = weight_classes
          /\ _lambda_index' = _lambda_index]_vars

\* both chunks have finished with two tuples each in an inclusive accumulator
\* that differs from the other chunk's
ChunkIsolationReached ==
    /\ DOMAIN chunks = Chunks
    /\ \A k \in Chunks :
          /\ chunks[k].pc = "ok"
          /\ Len(chunks[k].added) = 2
          /\ chunks[k].weightsIncl.weight # Ones
    /\ chunks[1].weightsIncl # chunks[2].weightsIncl
    /\ weight_classes = ImportedRegistry

\* the tuples that the weights of a list return, each from its own
\* computation
RECURSIVE OwnTuples(_)
OwnTuples(ws) ==
    IF ws = <<>> THEN <<>> ELSE Compute(Head(ws)) \o OwnTuples(Tail(ws))

\* C24: right after a construction every custom weight of the configuration
\* has had its own function invoked, and the accumulator of every scope holds
\* the values that the weights of its list return themselves, also when two
\* custom weights carry the same name or the name of a built-in weight
OwnFunctionInvoked ==
    (last.op = "init" /\ wm_status = "ok") =>
      /\ \A w \in Referenced : w.kind = "custom" => calls[w.function] >= 1
      /\ _weightsIncl = AddTuples(WeightsNew, OwnTuples(weightsConf.inclusive))
      /\ \A c \in DOMAIN _weightsByCat :
            _weightsByCat[c] =
               AddTuples(WeightsNew, OwnTuples(weightsConf.bycategory[c]))

\* C25: for every category, and without one, get_weight with the modifier
\* "nominal" returns the array that get_weight returns without a modifier
NominalModifier ==
    wm_status = "ok" =>
      \A c \in QueryCategories :
         /\ get_weight(c, "nominal").kind = "array"
         /\ get_weight(c, "nominal") = get_weight(c, None)

\* C26: after add_weight has added a weight with an up and a down array,
\* the modifiers <name>Up and <name>Down are available in the scope it was
\* added to and get_weight returns an array for them
AddedModifiersTracked ==
    (last.op = "add_weight" /\ last.error = "" /\ last.weight.len > 2) =>
      \A d \in {"Up", "Down"} :
         /\ IF last.category = None
            THEN last.weight.name \o d \in _available_modifiers_inclusive
            ELSE /\ last.category \in DOMAIN _available_modifiers_bycat
                 /\ last.weight.name \o d
                       \in _available_modifiers_bycat[last.category]
         /\ get_weight(last.category, last.weight.name \o d).kind = "array"

\* ---------------------------------------- properties of the Configurator
\* load_weights_config has returned without an error
WeightsResolved ==
    /\ cfg_pc \notin {"idle", "weights"}
    /\ ~(cfg_pc = "error" /\ cfg_error.step = "weights")

\* C2: after a successful weights resolution, for every sample no weight is
\* both in the sample's inclusive list and in one of its bycategory lists
NoNameInBothScopes ==
    WeightsResolved =>
      \A s \in DOMAIN weights_config : \A c \in Categories :
         \A w \in ToSet(weights_config[s].inclusive) :
            ~In(w, weights_config[s].bycategory[c])

\* a weight listed in common.inclusive and in common.bycategory of a category
CommonDuplicate ==
    /\ wcfg.has_common
    /\ \E c \in Categories : \E w \in ToSet(wcfg.common.inclusive) :
          In(w, wcfg.common.bycategory[c])

\* C7: once load_weights_config has run on a configuration with a weight in
\* common.inclusive and in common.bycategory of some category, it has raised
CommonDuplicateRejected ==
    (cfg_pc \notin {"idle", "weights"} /\ CommonDuplicate) =>
        /\ cfg_pc = "error"
        /\ cfg_error.step = "weights"
        /\ \A s \in DOMAIN weights_config : \A c \in Categories :
              \A w \in ToSet(weights_config[s].inclusive) :
                 ~In(w, weights_config[s].bycategory[c])

\* pileup is in common.inclusive and in common.bycategory of SR, and the
\* resolution has raised the duplicate error
CommonDuplicateRejectedReached ==
    /\ cfg_pc = "error"
    /\ cfg_error = [step |-> "weights", message |-> "already included inclusively"]
    /\ In(Str("pileup"), wcfg.common.inclusive)
    /\ In(Str("pileup"), wcfg.common.bycategory["SR"])
    /\ Len(samples) = 2

\* the entries of the four places of a configuration
Listed(cfg) ==
    (IF ~cfg.has_common THEN {}
     ELSE ToSet(cfg.common.inclusive)
          \cup UNION {ToSet(cfg.common.bycategory[c]) : c \in Categories})
    \cup UNION {ToSet(cfg.bysample[s].inclusive) : s \in DOMAIN cfg.bysample}
    \cup UNION {ToSet(cfg.bysample[s].bycategory[c]) :
                   s \in DOMAIN cfg.bysample, c \in Categories}

\* a configuration that lists a string outside the names in available
ListsUnknown(cfg, available) ==
    \E w \in Listed(cfg) : w.kind = "str" /\ w.name \notin available

\* the step of the given name has run
HasRun(step) ==
    LET i == IndexOf(Steps, step) IN
      \/ \E j \in DOMAIN Steps : j > i /\ cfg_pc = Steps[j]
      \/ /\ cfg_pc = "error"
         /\ \E j \in DOMAIN Steps : j >= i /\ cfg_error.step = Steps[j]

\* C8: a weights configuration that lists an unknown string in any of its
\* four places makes load_weights_config raise, and a variations
\* configuration (weights and shape) that lists an unknown string makes
\* load_variations_config raise
UnknownNameRejected ==
    /\ (HasRun("weights") /\ ListsUnknown(wcfg, available_weights)) =>
          cfg_pc = "error" /\ cfg_error.step = "weights"
    /\ (HasRun("variations_weights")
        /\ ListsUnknown(vcfg.weights, available_variations)) =>
          cfg_pc = "error" /\ cfg_error.step = "variations_weights"
    /\ (HasRun("variations_shape")
        /\ ListsUnknown(vcfg.shape, available_variations)) =>
          cfg_pc = "error" /\ cfg_error.step = "variations_shape"

\* an unknown string in bysample.bycategory of the shape variations was
\* rejected, after the weights and the weights variations were resolved
UnknownNameRejectedReached ==
    /\ cfg_pc = "error"
    /\ cfg_error = [step |-> "variations_shape",
                    message |-> "Wrong variation configuration"]
    /\ "ttHTobb" \in DOMAIN vcfg.shape.bysample
    /\ In(Str("jes_does_not_exist"), vcfg.shape.bysample["ttHTobb"].bycategory["CR"])
    /\ Len(wcfg.common.inclusive) > 0

\* C14: after a successful weights resolution is_split_bycat of a sample is
\* true exactly when one of the sample's bycategory lists is not empty
SplitFlag ==
    WeightsResolved =>
      \A s \in DOMAIN weights_config :
         weights_config[s].is_split_bycat
            <=> \E c \in Categories : weights_config[s].bycategory[c] # <<>>

\* of two samples, the one with a bysample bycategory weight is split and the
\* other is not
SplitFlagReached ==
    /\ WeightsResolved
    /\ Len(samples) = 2
    /\ weights_config["ttHTobb"].is_split_bycat
    /\ weights_config["ttHTobb"].bycategory["CR"] # <<>>
    /\ ~weights_config["TTToSemiLeptonic"].is_split_bycat
    /\ weights_config["TTToSemiLeptonic"].inclusive # <<>>

\* the keys of bysample in a configuration that are not among known
UnknownSamples(cfg, known) == DOMAIN cfg.bysample \ known

\* C15: a weights or a variations configuration without the "common" key
\* raises, a bysample entry of the weights, the variations or the columns for
\* a sample that is not known raises, and after an error no processor is
\* instantiated and the construction does not complete
StructuralErrors ==
    /\ (HasRun("weights")
        /\ (~wcfg.has_common \/ UnknownSamples(wcfg, ToSet(samples)) # {})) =>
          cfg_pc = "error" /\ cfg_error.step = "weights"
    /\ (HasRun("variations_weights")
        /\ (\/ ~vcfg.weights.has_common
            \/ UnknownSamples(vcfg.weights, ToSet(samples)) # {})) =>
          cfg_pc = "error" /\ cfg_error.step = "variations_weights"
    /\ (HasRun("variations_shape")
        /\ (\/ ~vcfg.shape.has_common
            \/ UnknownSamples(vcfg.shape, ToSet(samples)) # {})) =>
          cfg_pc = "error" /\ cfg_error.step = "variations_shape"
    /\ (HasRun("columns")
        /\ UnknownSamples(ccfg, total_samples_list(samples, subsamples_dict))
              # {}) =>
          cfg_pc = "error" /\ cfg_error.step = "columns"
    /\ cfg_pc = "error" => processor_instance = None

\* the columns name a subsample of a dataset without subsamples: the step
\* raised after the weights and the variations were resolved
StructuralErrorsReached ==
    /\ cfg_pc = "error"
    /\ cfg_error = [step |-> "columns", message |-> "Wrong columns configuration"]
    /\ subsamples_dict = <<>>
    /\ "ttHTobb_1b" \in DOMAIN ccfg.bysample
    /\ processor_instance = None

\* C16: the workflow is instantiated only when the weights, the variations of
\* both types and the columns were all resolved without an error, and never
\* once a step has raised
FailFast ==
    /\ processor_instance # None =>
         /\ cfg_pc = "done"
         /\ cfg_error.step = ""
         /\ load_weights_config(wcfg, samples, EmptyWeightsConfig(samples),
                                available_weights).err = ""
         /\ weights_config =
               load_weights_config(wcfg, samples, EmptyWeightsConfig(samples),
                                   available_weights).cfg
         /\ load_variations_config(
               vcfg.weights, "weights", samples,
               EmptyVariationsConfig(samples), available_variations).err = ""
         /\ load_variations_config(
               vcfg.shape, "shape", samples,
               EmptyVariationsConfig(samples), available_variations).err = ""
         /\ load_columns_config(ccfg, samples, subsamples_dict).err = ""
         /\ columns = load_columns_config(ccfg, samples, subsamples_dict).cfg
    /\ cfg_error.step # "" => (cfg_pc = "error" /\ processor_instance = None)
    /\ cfg_pc \in {"weights", "variations_weights", "variations_shape",
                   "columns", "workflow"} => processor_instance = None

\* the workflow was instantiated on a configuration with weights and columns
FailFastReached ==
    /\ cfg_pc = "done"
    /\ processor_instance = load_workflow
    /\ wcfg.common.inclusive # <<>>
    /\ ccfg.bysample # <<>>

\* the list a configuration gives for a sample, empty without an entry
SampleList(cfg, s, scope) ==
    IF s \notin DOMAIN cfg.bysample THEN <<>>
    ELSE IF scope = "inclusive" THEN cfg.bysample[s].inclusive
    ELSE cfg.bysample[s].bycategory[scope]

\* C18: after a successful weights resolution the inclusive list of a sample
\* is common.inclusive followed by the sample's bysample inclusive list, and
\* the list of a category is common.bycategory of it followed by the sample's
\* bysample list of it; the entries for one sample reach no other sample
LayeredMerge ==
    WeightsResolved =>
      \A s \in DOMAIN weights_config :
         /\ weights_config[s].inclusive =
               wcfg.common.inclusive \o SampleList(wcfg, s, "inclusive")
         /\ \A c \in Categories :
               weights_config[s].bycategory[c] =
                  wcfg.common.bycategory[c] \o SampleList(wcfg, s, c)

\* the first sample has a common weight followed by one of its own, the
\* second sample has the common weight only
LayeredMergeReached ==
    /\ WeightsResolved
    /\ Len(samples) = 2
    /\ Len(weights_config["ttHTobb"].inclusive) = 2
    /\ Len(wcfg.common.inclusive) = 1
    /\ Len(SampleList(wcfg, "ttHTobb", "inclusive")) = 1
    /\ weights_config["ttHTobb"].inclusive[1] = wcfg.common.inclusive[1]
    /\ weights_config["ttHTobb"].inclusive[2] =
          SampleList(wcfg, "ttHTobb", "inclusive")[1]
    /\ weights_config["ttHTobb"].inclusive[1] #
          weights_config["ttHTobb"].inclusive[2]
    /\ weights_config["TTToSemiLeptonic"].inclusive = wcfg.common.inclusive

\* load_variations_config has returned without an error for the type
VariationsResolved(type) ==
    /\ HasRun("variations_" \o type)
    /\ ~(cfg_pc = "error" /\ cfg_error.step = "variations_" \o type)

\* C19: after a successful variations resolution the names of a sample, a
\* type and a category are those of common.inclusive, of common.bycategory
\* of the category, and of the sample's bysample inclusive and category lists
FlattenedMerge ==
    \A type \in {"weights", "shape"} :
       VariationsResolved(type) =>
         \A s \in DOMAIN variations_config : \A c \in Categories :
            ToSet(variations_config[s][type][c]) =
                ToSet(vcfg[type].common.inclusive)
                \cup ToSet(vcfg[type].common.bycategory[c])
                \cup ToSet(SampleList(vcfg[type], s, "inclusive"))
                \cup ToSet(SampleList(vcfg[type], s, c))

\* a shape variation of the first sample only reaches both of its categories
\* and no category of the second sample
FlattenedMergeReached ==
    /\ VariationsResolved("shape")
    /\ Len(samples) = 2
    /\ SampleList(vcfg.shape, "ttHTobb", "inclusive") = <<Str("pileup")>>
    /\ \A c \in Categories :
          variations_config["ttHTobb"].shape[c] = <<Str("pileup")>>
    /\ \A c \in Categories :
          variations_config["TTToSemiLeptonic"].shape[c] = <<>>

\* a list without a repeated entry, and a configuration made of such lists
NoRepeat(list) ==
    \A i, j \in DOMAIN list : i # j => list[i] # list[j]
WrittenWithoutRepeat(cfg) ==
    /\ NoRepeat(cfg.common.inclusive)
    /\ \A c \in Categories : NoRepeat(cfg.common.bycategory[c])
    /\ \A s \in DOMAIN cfg.bysample :
          /\ NoRepeat(cfg.bysample[s].inclusive)
          /\ \A c \in Categories : NoRepeat(cfg.bysample[s].bycategory[c])

\* C20: after a successful resolution of variations and columns written
\* without a repeated entry in any one list, no name is twice in the list of
\* a sample and a category, whichever layers list it
NoDuplicateNames ==
    /\ \A type \in {"weights", "shape"} :
          (VariationsResolved(type) /\ WrittenWithoutRepeat(vcfg[type])) =>
             \A s \in DOMAIN variations_config : \A c \in Categories :
                NoRepeat(variations_config[s][type][c])
    /\ (cfg_pc \in {"workflow", "done"} /\ WrittenWithoutRepeat(ccfg)) =>
          \A k \in DOMAIN columns : \A c \in Categories :
             NoRepeat(columns[k][c])

\* C27: when the construction of the Configurator succeeds, every weight
\* variation resolved for a sample and a category is produced by a weight
\* resolved for the sample inclusively or in that category, so its up and
\* down modifiers are available to get_weight
VariationsHaveWeights ==
    cfg_pc = "done" =>
      \A s \in DOMAIN variations_config : \A c \in Categories :
         \A i \in DOMAIN variations_config[s].weights[c] :
            \A d \in {"Up", "Down"} :
               variations_config[s].weights[c][i].name \o d \in
                  Produced(weights_config[s].inclusive)
                  \cup Produced(weights_config[s].bycategory[c])

\* no two entries of the list carry the same name
NoRepeatedName(list) ==
    \A i, j \in DOMAIN list : i # j => list[i].name # list[j].name

\* C28: after a successful resolution of a weights configuration written
\* without a repeated entry in any one list, no weight name is twice in the
\* inclusive list of a sample or in one of its bycategory lists
NoWeightTwiceInScope ==
    (WeightsResolved /\ WrittenWithoutRepeat(wcfg)) =>
      \A s \in DOMAIN weights_config :
         /\ NoRepeatedName(weights_config[s].inclusive)
         /\ \A c \in Categories :
               NoRepeatedName(weights_config[s].bycategory[c])

\* C29: no step of the construction of a Configurator changes an object
\* passed to it: the skim and preselections lists, the categories mapping,
\* the weights and the variations configurations
ArgumentsUnchanged ==
    [][/\ skim' = skim
       /\ preselections' = preselections
       /\ categories' = categories
       /\ wcfg' = wcfg
       /\ vcfg' = vcfg]_vars

\* C30: loading cuts and categories raises an error when an entry of skim or
\* preselections is not a Cut; otherwise it succeeds, with a single
\* passthrough cut in place of an empty skim or preselections list and the
\* category baseline, of the passthrough cut, in place of empty categories
DefaultSelections ==
    [][cfg_pc = "cuts" =>
         IF FirstNotCut(skim) # 0 \/ FirstNotCut(preselections) # 0
         THEN cfg_pc' = "error"
         ELSE /\ cfg_pc' # "error"
              /\ self_skim' =
                    IF Len(skim) = 0 THEN <<passthrough>> ELSE skim
              /\ self_preselections' =
                    IF Len(preselections) = 0 THEN <<passthrough>>
                    ELSE preselections
              /\ self_categories' =
                    IF categories = <<>>
                    THEN [c \in {"baseline"} |-> <<passthrough>>]
                    ELSE categories]_vars

\* ------------------------------------------- properties of the registry
\* C12: a class statement deriving directly from WeightWrapper with a name
\* the registry holds raises and leaves the registry to the first class; with
\* a fresh name it adds that name for the new class and changes no other entry
RegistryCollision ==
    [][(n_defs' = n_defs + 1
        /\ reg_last'.op = "class"
        /\ reg_last'.base = "WeightWrapper"
        /\ "name" \in DOMAIN reg_last'.clsdict) =>
          IF reg_last'.clsdict["name"] \in DOMAIN weight_classes
          THEN /\ reg_last'.error = "ValueError"
               /\ weight_classes' = weight_classes
               /\ reg_last'.class_name \notin DOMAIN classes'
          ELSE /\ reg_last'.error = ""
               /\ DOMAIN weight_classes' =
                     DOMAIN weight_classes \cup {reg_last'.clsdict["name"]}
               /\ weight_classes'[reg_last'.clsdict["name"]] =
                     reg_last'.class_name
               /\ \A k \in DOMAIN weight_classes :
                     weight_classes'[k] = weight_classes[k]]_vars

\* a second class deriving from WeightWrapper took a registered name: it
\* raised, and the name still belongs to the first class
RegistryCollisionReached ==
    /\ reg_last.op = "class"
    /\ reg_last.base = "WeightWrapper"
    /\ reg_last.error = "ValueError"
    /\ reg_last.clsdict["name"] \in DOMAIN weight_classes
    /\ weight_classes[reg_last.clsdict["name"]] # reg_last.class_name
    /\ weight_classes[reg_last.clsdict["name"]] \in DOMAIN classes

\* C13: every weight class that user code creates with a name, by a class
\* statement on any weight class or by wrap_func, is in the registry under
\* that name, and no two of them have the same name
AllWeightsRegistered ==
    /\ \A c \in DOMAIN classes :
          classes[c].own =>
             /\ classes[c].name \in DOMAIN weight_classes
             /\ weight_classes[classes[c].name] = c
    /\ \A c1, c2 \in DOMAIN classes :
          (classes[c1].own /\ classes[c2].own /\ c1 # c2) =>
             classes[c1].name # classes[c2].name

====
